---- MODULE Spec2Model ----
(***************************************************************************)
(* Interview coach: the LangGraph state machine of graph.py, its nodes     *)
(* (planner, observer, experts, difficulty, interviewer, final report)     *)
(* and the callers that drive it (run_cli, run_scenario, a direct caller   *)
(* of build_graph().invoke).                                                *)
(*                                                                         *)
(* Python values are represented as follows.                               *)
(*   None / absent key (state.get(...) is None) : the string "None" for    *)
(*       scalars, <<>> for optional objects (<<x>> holds the object x).    *)
(*   int 3 (difficulty of run_cli)              : the string "3"; the      *)
(*       operators IsInt / IsStr tell the Python type.                     *)
(*   float answer_quality                       : tenths (3.8 -> 38).      *)
(*   float confidence                           : hundredths.              *)
(* build_graph() is taken as having built the graph that its add_node /    *)
(* add_edge calls describe.                                                *)
(***************************************************************************)
EXTENDS Integers, Sequences, FiniteSets, TLC

VARIABLES
    driver,               \* which caller owns the session: "cli", "scenario", "direct"
    max_turns,            \* run_cli(max_turns)
    cpc,                  \* position of the caller
    kind,                 \* which call site of graph.invoke is running
    st,                   \* the caller's state dict
    gs,                   \* the graph's working state during an invocation
    node,                 \* the graph node about to run ("idle" outside an invocation)
    visited,              \* nodes run so far in the current / last invocation
    calls,                \* collaborator calls made in the current / last invocation
    invocations,          \* number of graph.invoke calls of the session
    reports_made,         \* number of FinalFeedback objects produced in the session
    last_logged_turn_id,  \* run_cli local
    logger,               \* InterviewLogger: turns and final_feedback
    stop_reason,          \* run_cli local
    new_message,          \* the caller put a new candidate message into the state
    plan_answer,          \* <<topics>> the planning collaborator gave in this invocation
    base,                 \* the first text the question collaborator gave in this invocation
    error,                \* the exception that left graph.invoke, if any
    unit                  \* input / output of a node function applied on its own

vars == <<driver, max_turns, cpc, kind, st, gs, node, visited, calls, invocations,
          reports_made, last_logged_turn_id, logger, stop_reason, new_message,
          plan_answer, base, error, unit>>

(***************************************************************************)
(* Bounds of the model.                                                    *)
(***************************************************************************)
MaxInvocations == 3
MaxTurnsArg == 2

(***************************************************************************)
(* Values.                                                                 *)
(***************************************************************************)
None == "None"

PlanLength == 10
SIMILARITY_THRESHOLD == 85
MAX_REWRITE_ATTEMPTS == 2

\* the two Russian commands are written in Latin letters
STOP_COMMANDS == {"stop", "stop (ru)", "stop interview (ru)"}

TOPIC_SEQUENCE ==
    <<"python_basics", "async", "db_modeling", "queues",
      "observability", "architecture", "testing", "rag_langchain">>

ExpertRole == {"tech_lead", "team_lead", "qa", "designer", "analyst"}

_EXPERT_NODES ==
    [r \in ExpertRole |->
        CASE r = "tech_lead" -> "expert_tech_lead"
          [] r = "team_lead" -> "expert_team_lead"
          [] r = "qa"        -> "expert_qa"
          [] r = "designer"  -> "expert_designer"
          [] r = "analyst"   -> "expert_analyst"]

ExpertNodeNames == {_EXPERT_NODES[r] : r \in ExpertRole}

RoleOfNode(n) == CHOOSE r \in ExpertRole : _EXPERT_NODES[r] = n

(***************************************************************************)
(* Strings.  str.strip(), str.lower() and str.upper() on the strings the   *)
(* model uses.                                                             *)
(***************************************************************************)
Strip(s) ==
    CASE s = " "            -> ""
      [] s = " db_modeling " -> "db_modeling"
      [] s = " medium "     -> "medium"
      [] OTHER              -> s

Lower(s) ==
    CASE s = "STOP"   -> "stop"
      [] OTHER        -> s

Upper(s) ==
    CASE s = "medium" -> "MEDIUM"
      [] s = "hard"   -> "HARD"
      [] s = "easy"   -> "EASY"
      [] OTHER        -> s

\* Python truthiness of a str | None value
Truthy(s) == s # None /\ s # ""

\* (value or "")
OrEmpty(s) == IF s = None THEN "" ELSE s

IsInt(d) == d \in {"0", "1", "2", "3", "4", "5", "6"}
IsStr(d) == d # None /\ ~IsInt(d)

Min(a, b) == IF a < b THEN a ELSE b
Max(a, b) == IF a > b THEN a ELSE b

SeqToSet(q) == {q[i] : i \in 1..Len(q)}

\* [x for x in q if x]
FilterTruthy(q) == SelectSeq(q, LAMBDA x : Truthy(x))

\* result of a function: a value (for a node, the patch to merge) or an
\* exception, and the number of collaborator calls it made
Ok(value) == [raised |-> FALSE, update |-> value, error |-> None, calls |-> 0]
Raise(e) == [raised |-> TRUE, update |-> <<>>, error |-> e, calls |-> 0]
Called(result, n) == [result EXCEPT !.calls = n]

\* agent.invoke / runnable.invoke failed, or answered with an unusable object
CollaboratorError == "CollaboratorError"

(***************************************************************************)
(* models.py                                                               *)
(***************************************************************************)
NextAction ==
    {"ASK_DEEPER", "ASK_EASIER", "CHANGE_TOPIC", "HANDLE_OFFTOPIC",
     "HANDLE_HALLUCINATION", "HANDLE_ROLE_REVERSAL", "WRAP_UP"}

ObserverFlags(off_topic, hallucination, contradiction, role_reversal) ==
    [off_topic |-> off_topic, hallucination |-> hallucination,
     contradiction |-> contradiction, role_reversal |-> role_reversal]

\* variant: the number of topics is not checked
validate_topics_any_count(value) ==
    LET cleaned == [i \in 1..Len(value) |-> Strip(value[i])]
    IN  IF \E i \in 1..Len(value) : cleaned[i] = ""
        THEN Raise("ValueError")
        ELSE Ok(cleaned)

\* PlannedTopics.validate_topics: the cleaned list, or ValueError
validate_topics(value) ==
    LET cleaned == [i \in 1..Len(value) |-> Strip(value[i])]
    IN  IF \E i \in 1..Len(value) : cleaned[i] = ""
        THEN Raise("ValueError")
        ELSE IF Len(cleaned) # PlanLength
             THEN Raise("ValueError")
             ELSE Ok(cleaned)

\* TurnLog.validate_difficulty together with the int | None field type
validate_difficulty(value) ==
    IF value = None THEN TRUE
    ELSE IF ~IsInt(value) THEN FALSE
    ELSE value \in {"1", "2", "3", "4", "5"}

TurnLog(turn_id, agent_visible_message, user_message, internal_thoughts, topic, difficulty_before, difficulty_after, flags, skills_delta) ==
    IF validate_difficulty(difficulty_before) /\ validate_difficulty(difficulty_after)
    THEN Ok([turn_id |-> turn_id,
             agent_visible_message |-> agent_visible_message,
             user_message |-> user_message,
             internal_thoughts |-> internal_thoughts,
             topic |-> topic,
             difficulty_before |-> difficulty_before,
             difficulty_after |-> difficulty_after,
             flags |-> flags,
             skills_delta |-> skills_delta])
    ELSE Raise("ValidationError")

\* variant: only the lower end is enforced
_clamp_low_only(value, low, high) ==
    IF value < low THEN low ELSE value

\* _clamp applied to a numeric value
_clamp(value, low, high) ==
    IF value < low THEN low
    ELSE IF value > high THEN high
    ELSE value

ObserverReport(detected_topic, answer_quality, confidence, flags, recommended_next_action, recommended_question_style) ==
    [detected_topic |-> detected_topic,
     answer_quality |-> _clamp(answer_quality, 0, 50),
     confidence |-> _clamp(confidence, 0, 100),
     flags |-> flags,
     recommended_next_action |-> recommended_next_action,
     recommended_question_style |-> recommended_question_style,
     fact_check_notes |-> None,
     skills_delta |-> None]

SKILL_KEYS == TOPIC_SEQUENCE

\* skills.build_skill_baseline: every key at 0.0
build_skill_baseline == [k \in SeqToSet(SKILL_KEYS) |-> 0]

\* absent current_topic_index
NoIndex == -1

\* int(state.get("current_topic_index") or 0)
IndexOrZero(v) == IF v = NoIndex THEN 0 ELSE v

(***************************************************************************)
(* nodes/planner.py                                                        *)
(***************************************************************************)
GoodPlan ==
    <<"python_basics", "async", "db_modeling", "queues", "observability",
      "architecture", "testing", "rag_langchain", "security", "caching">>

\* what the planning collaborator may answer: a topic list, or a failure of
\* the call
PlannerResults ==
    {[raises |-> FALSE, topics |-> GoodPlan],
     [raises |-> FALSE, topics |-> [GoodPlan EXCEPT ![3] = " db_modeling "]],
     [raises |-> FALSE, topics |-> SubSeq(GoodPlan, 1, 9)],
     [raises |-> FALSE, topics |-> GoodPlan \o <<"extra">>],
     [raises |-> FALSE, topics |-> [GoodPlan EXCEPT ![2] = " "]],
     [raises |-> FALSE, topics |-> [GoodPlan EXCEPT ![4] = " db_modeling "]],
     [raises |-> TRUE,  topics |-> <<>>]}

\* _extract_plan / _coerce_plan: PlannedTopics.model_validate of the answer
_extract_plan(result) ==
    IF result.raises THEN Raise(CollaboratorError) ELSE validate_topics(result.topics)

\* variant: the plan is requested and stored in every invocation
run_planner_every_time(state, result) ==
    LET plan == _extract_plan(result)
    IN  IF plan.raised
        THEN Called(plan, 1)
        ELSE Called(Ok([planned_topics |-> plan.update,
                        current_topic_index |-> 0]), 1)

\* variant: a run that finds a plan sets the topic index back to 0
run_planner_resets_index(state, result) ==
    IF Len(state.planned_topics) # 0
    THEN Ok([current_topic_index |-> 0])
    ELSE LET plan == _extract_plan(result)
         IN  IF plan.raised
             THEN Called(plan, 1)
             ELSE Called(Ok([planned_topics |-> plan.update,
                             current_topic_index |-> 0]), 1)

run_planner(state, result) ==
    IF Len(state.planned_topics) # 0
    THEN Ok(<<>>)
    ELSE LET plan == _extract_plan(result)
         IN  IF plan.raised
             THEN Called(plan, 1)
             ELSE Called(Ok([planned_topics |-> plan.update,
                             current_topic_index |-> 0]), 1)

(***************************************************************************)
(* nodes/observer.py                                                       *)
(***************************************************************************)
_topic_at(planned_topics, index) ==
    IF index < 0 \/ index >= Len(planned_topics)
    THEN None
    ELSE LET topic == Strip(planned_topics[index + 1])
         IN  IF topic = "" THEN None ELSE topic

\* variant: the id of the last record is used again
_next_turn_id_reused(turns) ==
    IF Len(turns) = 0 THEN 1 ELSE turns[Len(turns)].turn_id

_next_turn_id(turns) ==
    IF Len(turns) = 0 THEN 1 ELSE turns[Len(turns)].turn_id + 1

\* variant: difficulty_after is left unset
_build_turn_log_from_pending_no_after(state) ==
    IF ~Truthy(state.pending_interviewer_message)
    THEN Ok(<<>>)
    ELSE IF Strip(OrEmpty(state.last_user_message)) = ""
    THEN Ok(<<>>)
    ELSE LET pending_report == state.pending_report
             current_topic ==
                 _topic_at(state.planned_topics, IndexOrZero(state.current_topic_index))
             log == TurnLog(
                 _next_turn_id(state.turns),
                 state.pending_interviewer_message,
                 OrEmpty(state.last_user_message),
                 state.pending_internal_thoughts,
                 IF pending_report # <<>> THEN pending_report[1].detected_topic
                                          ELSE current_topic,
                 state.pending_difficulty,
                 None,
                 IF pending_report # <<>> THEN <<pending_report[1].flags>> ELSE <<>>,
                 IF pending_report # <<>> THEN pending_report[1].skills_delta ELSE None)
         IN  IF log.raised THEN log ELSE Ok(<<log.update>>)

\* Ok(<<>>) is "return None", Ok(<<log>>) a record; TurnLog may raise
_build_turn_log_from_pending(state) ==
    IF ~Truthy(state.pending_interviewer_message)
    THEN Ok(<<>>)
    ELSE IF Strip(OrEmpty(state.last_user_message)) = ""
    THEN Ok(<<>>)
    ELSE LET pending_report == state.pending_report
             current_topic ==
                 _topic_at(state.planned_topics, IndexOrZero(state.current_topic_index))
             log == TurnLog(
                 _next_turn_id(state.turns),
                 state.pending_interviewer_message,
                 OrEmpty(state.last_user_message),
                 state.pending_internal_thoughts,
                 IF pending_report # <<>> THEN pending_report[1].detected_topic
                                          ELSE current_topic,
                 state.pending_difficulty,
                 state.pending_difficulty,
                 IF pending_report # <<>> THEN <<pending_report[1].flags>> ELSE <<>>,
                 IF pending_report # <<>> THEN pending_report[1].skills_delta ELSE None)
         IN  IF log.raised THEN log ELSE Ok(<<log.update>>)

_update_topics_covered(topics, detected_topic) ==
    LET normalized == FilterTruthy(topics)
    IN  IF Truthy(detected_topic)
        THEN LET topic == Strip(detected_topic)
             IN  IF topic # "" /\ topic \notin SeqToSet(normalized)
                 THEN Append(normalized, topic)
                 ELSE normalized
        ELSE normalized

\* variant: an answer that lets the topic advance is rated 4.5
_build_report_high_quality(current_topic, ask_deeper, advance_topic) ==
    LET action == IF advance_topic THEN "CHANGE_TOPIC" ELSE "ASK_DEEPER"
        flags == ObserverFlags(FALSE, FALSE, FALSE, FALSE)
        answer_quality == IF advance_topic THEN 45 ELSE IF ask_deeper THEN 26 ELSE 32
        confidence == IF advance_topic THEN 70 ELSE IF ask_deeper THEN 60 ELSE 65
    IN  ObserverReport(IF current_topic = None THEN "" ELSE current_topic,
                       answer_quality, confidence, flags, action,
                       IF ask_deeper THEN "clarify" ELSE "advance")

_build_report(current_topic, ask_deeper, advance_topic) ==
    LET action == IF advance_topic THEN "CHANGE_TOPIC" ELSE "ASK_DEEPER"
        flags == ObserverFlags(FALSE, FALSE, FALSE, FALSE)
        answer_quality == IF advance_topic THEN 38 ELSE IF ask_deeper THEN 26 ELSE 32
        confidence == IF advance_topic THEN 70 ELSE IF ask_deeper THEN 60 ELSE 65
    IN  ObserverReport(IF current_topic = None THEN "" ELSE current_topic,
                       answer_quality, confidence, flags, action,
                       IF ask_deeper THEN "clarify" ELSE "advance")

ExpertRoleLists == {<<>>, <<"qa", "tech_lead">>}

\* what the observer collaborator may answer: a routing decision, or a
\* failure of the call
ObserverResults ==
    [raises : {FALSE}, ask_deeper : BOOLEAN, advance_topic : BOOLEAN,
     expert_roles : ExpertRoleLists]
    \cup {[raises |-> TRUE, ask_deeper |-> FALSE, advance_topic |-> FALSE,
           expert_roles |-> <<>>]}

\* variant: the observer stage adds a skill delta to the skill matrix
run_observer_applies_deltas(state, decision) ==
    LET turn_log == _build_turn_log_from_pending(state)
    IN  IF turn_log.raised THEN turn_log
        ELSE
        LET update ==
                IF turn_log.update # <<>>
                THEN [turns |-> Append(state.turns, turn_log.update[1]),
                      turn_log |-> turn_log.update,
                      pending_interviewer_message |-> None,
                      pending_internal_thoughts |-> <<>>,
                      pending_report |-> <<>>,
                      pending_difficulty |-> None]
                ELSE <<>>
        IN  IF Strip(OrEmpty(state.last_user_message)) = ""
            THEN Ok(update)
            ELSE IF decision.raises THEN Called(Raise(CollaboratorError), 1)
            ELSE
            LET planned_topics == state.planned_topics
                current_index == IndexOrZero(state.current_topic_index)
                current_topic == _topic_at(planned_topics, current_index)
                next_index ==
                    IF decision.advance_topic /\ Len(planned_topics) # 0
                    THEN Min(current_index + 1, Len(planned_topics))
                    ELSE current_index
                report == _build_report(current_topic, decision.ask_deeper,
                                        decision.advance_topic)
            IN  Called(Ok([pending_expert_nodes |-> decision.expert_roles,
                           last_observer_report |-> <<report>>,
                           skill_matrix |->
                               [k \in DOMAIN state.skill_matrix |->
                                   state.skill_matrix[k] + 1],
                           topics_covered |->
                               _update_topics_covered(state.topics_covered,
                                                      current_topic)]
                          @@ (IF next_index # current_index
                              THEN [current_topic_index |-> next_index]
                              ELSE <<>>)
                          @@ update),
                       1)

run_observer(state, decision) ==
    LET turn_log == _build_turn_log_from_pending(state)
    IN  IF turn_log.raised THEN turn_log
        ELSE
        LET update ==
                IF turn_log.update # <<>>
                THEN [turns |-> Append(state.turns, turn_log.update[1]),
                      turn_log |-> turn_log.update,
                      pending_interviewer_message |-> None,
                      pending_internal_thoughts |-> <<>>,
                      pending_report |-> <<>>,
                      pending_difficulty |-> None]
                ELSE <<>>
        IN  IF Strip(OrEmpty(state.last_user_message)) = ""
            THEN Ok(update)
            ELSE IF decision.raises THEN Called(Raise(CollaboratorError), 1)
            ELSE
            LET planned_topics == state.planned_topics
                current_index == IndexOrZero(state.current_topic_index)
                current_topic == _topic_at(planned_topics, current_index)
                next_index ==
                    IF decision.advance_topic /\ Len(planned_topics) # 0
                    THEN Min(current_index + 1, Len(planned_topics))
                    ELSE current_index
                report == _build_report(current_topic, decision.ask_deeper,
                                        decision.advance_topic)
            IN  Called(Ok([pending_expert_nodes |-> decision.expert_roles,
                           last_observer_report |-> <<report>>,
                           topics_covered |->
                               _update_topics_covered(state.topics_covered,
                                                      current_topic)]
                          @@ (IF next_index # current_index
                              THEN [current_topic_index |-> next_index]
                              ELSE <<>>)
                          @@ update),
                       1)

(***************************************************************************)
(* nodes/experts.py                                                        *)
(***************************************************************************)
\* what an expert collaborator may answer: a formatted evaluation, or a
\* failure of the call
ExpertResults == {[raises |-> FALSE, text |-> "comment"],
                  [raises |-> TRUE, text |-> ""]}

run_expert(role, state, result) ==
    IF Strip(OrEmpty(state.last_user_message)) = ""
    THEN Ok(<<>>)
    ELSE IF result.raises THEN Called(Raise(CollaboratorError), 1)
    ELSE Called(Ok([expert_evaluations |->
                        (role :> result.text) @@ state.expert_evaluations]), 1)

(***************************************************************************)
(* nodes/difficulty.py                                                     *)
(***************************************************************************)
\* variant: the tiers are listed out of order
order_unsorted == <<"EASY", "HARD", "MEDIUM">>

order == <<"EASY", "MEDIUM", "HARD">>

\* variant: the position of the tier is taken to be the first
PositionIn_first(q, x) == 1

PositionIn(q, x) == CHOOSE i \in 1..Len(q) : q[i] = x

\* variant: the hallucination flag does not suppress the adjustment
run_difficulty_two_flags(state) ==
    LET report == state.last_observer_report
    IN  IF report = <<>> THEN Ok(<<>>)
        ELSE
        LET flags == report[1].flags
        IN  IF flags.role_reversal \/ flags.off_topic
            THEN Ok(<<>>)
            ELSE IF IsInt(state.difficulty) /\ state.difficulty # "0"
            THEN Raise("AttributeError")   \* 'int' object has no attribute 'strip'
            ELSE
            LET difficulty ==
                    IF IsInt(state.difficulty) THEN ""
                    ELSE Upper(Strip(OrEmpty(state.difficulty)))
            IN  IF difficulty = "" THEN Ok(<<>>)
                ELSE IF difficulty \notin SeqToSet(order) THEN Ok(<<>>)
                ELSE
                LET idx == PositionIn(order, difficulty)
                    quality == report[1].answer_quality
                    updated ==
                        IF quality >= 40 THEN order[Min(Len(order), idx + 1)]
                        ELSE IF quality <= 20 THEN order[Max(1, idx - 1)]
                        ELSE difficulty
                    reason ==
                        IF quality >= 40 THEN "increase"
                        ELSE IF quality <= 20 THEN "decrease"
                        ELSE ""
                IN  IF updated = difficulty
                    THEN Ok([difficulty_reason |-> ""])
                    ELSE Ok([difficulty |-> updated, difficulty_reason |-> reason])

run_difficulty(state) ==
    LET report == state.last_observer_report
    IN  IF report = <<>> THEN Ok(<<>>)
        ELSE
        LET flags == report[1].flags
        IN  IF flags.role_reversal \/ flags.off_topic \/ flags.hallucination
            THEN Ok(<<>>)
            ELSE IF IsInt(state.difficulty) /\ state.difficulty # "0"
            THEN Raise("AttributeError")   \* 'int' object has no attribute 'strip'
            ELSE
            LET difficulty ==
                    IF IsInt(state.difficulty) THEN ""
                    ELSE Upper(Strip(OrEmpty(state.difficulty)))
            IN  IF difficulty = "" THEN Ok(<<>>)
                ELSE IF difficulty \notin SeqToSet(order) THEN Ok(<<>>)
                ELSE
                LET idx == PositionIn(order, difficulty)
                    quality == report[1].answer_quality
                    updated ==
                        IF quality >= 40 THEN order[Min(Len(order), idx + 1)]
                        ELSE IF quality <= 20 THEN order[Max(1, idx - 1)]
                        ELSE difficulty
                    reason ==
                        IF quality >= 40 THEN "increase"
                        ELSE IF quality <= 20 THEN "decrease"
                        ELSE ""
                IN  IF updated = difficulty
                    THEN Ok([difficulty_reason |-> ""])
                    ELSE Ok([difficulty |-> updated, difficulty_reason |-> reason])

(***************************************************************************)
(* nodes/interviewer.py                                                    *)
(***************************************************************************)
FallbackPython == "What Python feature do you rely on most in day-to-day backend work, and why?"
FallbackAsync == "How do you approach backpressure when using async I/O in Python?"
FallbackDb == "How do you decide between normalization and denormalization for a read-heavy system?"
FallbackQueues == "What trade-offs do you consider when designing Kafka partitioning?"
FallbackObservability == "Which three signals are most important for diagnosing latency spikes, and why?"
FallbackArchitecture == "How do you evaluate trade-offs between consistency and availability in system design?"
FallbackTesting == "How do you structure integration tests to keep them reliable and fast?"
FallbackRag == "How do you reduce hallucinations in a RAG system while keeping latency low?"
FallbackGeneric == "Which area of backend engineering do you want to explore next?"

templates ==
    [t \in SeqToSet(TOPIC_SEQUENCE) |->
        CASE t = "python_basics" -> FallbackPython
          [] t = "async"         -> FallbackAsync
          [] t = "db_modeling"   -> FallbackDb
          [] t = "queues"        -> FallbackQueues
          [] t = "observability" -> FallbackObservability
          [] t = "architecture"  -> FallbackArchitecture
          [] t = "testing"       -> FallbackTesting
          [] t = "rag_langchain" -> FallbackRag]

\* a text of the collaborator that differs from FallbackAsync by the final "?"
AsyncReworded == "How do you approach backpressure when using async I/O in Python"

\* texts the question collaborator may return
CollabQuestions == {"Tell me about Kafka.", "Tell me about Kafkas", AsyncReworded}

\* _normalize_text: lower case, punctuation to blanks, blanks collapsed
_normalize_text(text) ==
    CASE text = "Tell me about Kafka." -> "tell me about kafka"
      [] text = "Tell me about Kafkas" -> "tell me about kafkas"
      [] text = AsyncReworded -> "how do you approach backpressure when using async i o in python"
      [] text = FallbackPython -> "what python feature do you rely on most in day to day backend work and why"
      [] text = FallbackAsync -> "how do you approach backpressure when using async i o in python"
      [] text = FallbackDb -> "how do you decide between normalization and denormalization for a read heavy system"
      [] text = FallbackQueues -> "what trade offs do you consider when designing kafka partitioning"
      [] text = FallbackObservability -> "which three signals are most important for diagnosing latency spikes and why"
      [] text = FallbackArchitecture -> "how do you evaluate trade offs between consistency and availability in system design"
      [] text = FallbackTesting -> "how do you structure integration tests to keep them reliable and fast"
      [] text = FallbackRag -> "how do you reduce hallucinations in a rag system while keeping latency low"
      [] text = FallbackGeneric -> "which area of backend engineering do you want to explore next"
      [] text = "STOP" -> "stop"
      [] text = " " -> ""
      [] OTHER -> text

\* SequenceMatcher(None, left, right).ratio() in percent, on normalized texts
_similarity_ratio(left, right) ==
    IF left = "" \/ right = "" THEN 0
    ELSE IF left = right THEN 100
    ELSE IF {left, right} = {"tell me about kafka", "tell me about kafkas"} THEN 97
    ELSE 50   \* every other pair of texts of the model is below 60

_is_duplicate(candidate, asked_questions) ==
    LET normalized_candidate == _normalize_text(candidate)
    IN  IF normalized_candidate = "" THEN FALSE
        ELSE \E i \in 1..Len(asked_questions) :
                _similarity_ratio(normalized_candidate,
                                  _normalize_text(asked_questions[i]))
                    >= SIMILARITY_THRESHOLD

\* first topic of TOPIC_KEYWORDS one of whose keywords occurs in the text
_infer_topic_from_question(question) ==
    LET text == _normalize_text(question)
    IN  CASE text \in {"tell me about kafka", "tell me about kafkas"} -> "queues"
          [] question \in {FallbackPython, FallbackAsync, AsyncReworded,
                           FallbackObservability}
                -> "python_basics"      \* "python", "python", "import"(ant)
          [] question = FallbackDb -> "db_modeling"
          [] question = FallbackQueues -> "queues"
          [] question \in {FallbackArchitecture, FallbackRag}
                -> "architecture"       \* "design", "latency"
          [] question = FallbackTesting -> "testing"
          [] OTHER -> None

_fallback_question(topics_covered) ==
    LET covered == SeqToSet(FilterTruthy(topics_covered))
        uncovered == {i \in 1..Len(TOPIC_SEQUENCE) : TOPIC_SEQUENCE[i] \notin covered}
    IN  IF uncovered # {}
        THEN templates[TOPIC_SEQUENCE[CHOOSE i \in uncovered :
                                        \A j \in uncovered : i <= j]]
        ELSE FallbackGeneric

_update_topics_from_question(topics, question) ==
    LET normalized == FilterTruthy(topics)
        detected == _infer_topic_from_question(question)
    IN  IF Truthy(detected) /\ detected \notin SeqToSet(normalized)
        THEN Append(normalized, detected)
        ELSE normalized

\* variant: only the marker "repeat" is looked for
_is_repeat_complaint_repeat_only(message) ==
    LET text == _normalize_text(message)
    IN  IF text = "" THEN FALSE
        ELSE text \in {"please repeat"}

_is_repeat_complaint(message) ==
    LET text == _normalize_text(message)
    IN  IF text = "" THEN FALSE
        ELSE text \in {"again", "please repeat"}

_update_asked_questions(asked, message) ==
    LET normalized == FilterTruthy(asked)
        cleaned == Strip(message)
    IN  IF cleaned # "" /\ cleaned \notin SeqToSet(normalized)
        THEN Append(normalized, cleaned)
        ELSE normalized

\* variant: off_topic is looked at before role_reversal
_select_strategy_off_topic_first(report) ==
    IF report = <<>> THEN "ask_standard"
    ELSE
    LET flags == report[1].flags
        action == report[1].recommended_next_action
    IN  IF flags.off_topic THEN "return_to_topic"
        ELSE IF flags.role_reversal THEN "answer_candidate_question"
        ELSE IF flags.hallucination THEN "handle_hallucination"
        ELSE IF action = "ASK_DEEPER" THEN "deepen"
        ELSE IF action = "ASK_EASIER" THEN "simplify"
        ELSE IF action = "CHANGE_TOPIC" THEN "change_topic"
        ELSE IF action = "HANDLE_OFFTOPIC" THEN "return_to_topic"
        ELSE IF action = "HANDLE_HALLUCINATION" THEN "handle_hallucination"
        ELSE IF action = "HANDLE_ROLE_REVERSAL" THEN "answer_candidate_question"
        ELSE IF action = "WRAP_UP" THEN "wrap_up"
        ELSE "ask_standard"

_select_strategy(report) ==
    IF report = <<>> THEN "ask_standard"
    ELSE
    LET flags == report[1].flags
        action == report[1].recommended_next_action
    IN  IF flags.role_reversal THEN "answer_candidate_question"
        ELSE IF flags.off_topic THEN "return_to_topic"
        ELSE IF flags.hallucination THEN "handle_hallucination"
        ELSE IF action = "ASK_DEEPER" THEN "deepen"
        ELSE IF action = "ASK_EASIER" THEN "simplify"
        ELSE IF action = "CHANGE_TOPIC" THEN "change_topic"
        ELSE IF action = "HANDLE_OFFTOPIC" THEN "return_to_topic"
        ELSE IF action = "HANDLE_HALLUCINATION" THEN "handle_hallucination"
        ELSE IF action = "HANDLE_ROLE_REVERSAL" THEN "answer_candidate_question"
        ELSE IF action = "WRAP_UP" THEN "wrap_up"
        ELSE "ask_standard"

\* the rendered text, kept as its parts; <<>> stands for the absent / empty
\* text, and an observer part of <<>> for "[Observer]: no report"
_build_internal_thoughts(report, strategy) ==
    IF report = <<>>
    THEN <<[observer |-> <<>>, strategy |-> strategy]>>
    ELSE <<[observer |-> <<[topic |-> report[1].detected_topic,
                            next_action |-> report[1].recommended_next_action,
                            off_topic |-> report[1].flags.off_topic,
                            hallucination |-> report[1].flags.hallucination,
                            contradiction |-> report[1].flags.contradiction,
                            role_reversal |-> report[1].flags.role_reversal]>>,
             strategy |-> strategy]>>

Raises == "<raises>"

\* what the question collaborator may do on its 1st, 2nd and 3rd call
InterviewerResults == [1..(1 + MAX_REWRITE_ATTEMPTS) -> CollabQuestions \cup {Raises}]

\* variant: after the rewrites the collaborator is asked once more
_generate_question_one_more(state, answers) ==
    LET last_user_message == Strip(OrEmpty(state.last_user_message))
        asked_questions == state.asked_questions
    IN  IF _is_repeat_complaint(last_user_message)
        THEN Ok(_fallback_question(state.topics_covered))
        ELSE IF answers[1] = Raises THEN Called(Raise(CollaboratorError), 1)
        ELSE IF ~_is_duplicate(answers[1], asked_questions)
        THEN Called(Ok(answers[1]), 1)
        ELSE IF answers[2] = Raises THEN Called(Raise(CollaboratorError), 2)
        ELSE IF ~_is_duplicate(answers[2], asked_questions)
        THEN Called(Ok(answers[2]), 2)
        ELSE IF answers[3] = Raises THEN Called(Raise(CollaboratorError), 3)
        ELSE IF ~_is_duplicate(answers[3], asked_questions)
        THEN Called(Ok(answers[3]), 3)
        ELSE Called(Ok(answers[3]), 4)

\* the accepted text, or the collaborator's failure
_generate_question(state, answers) ==
    LET last_user_message == Strip(OrEmpty(state.last_user_message))
        asked_questions == state.asked_questions
    IN  IF _is_repeat_complaint(last_user_message)
        THEN Ok(_fallback_question(state.topics_covered))
        ELSE IF answers[1] = Raises THEN Called(Raise(CollaboratorError), 1)
        ELSE IF ~_is_duplicate(answers[1], asked_questions)
        THEN Called(Ok(answers[1]), 1)
        ELSE IF answers[2] = Raises THEN Called(Raise(CollaboratorError), 2)
        ELSE IF ~_is_duplicate(answers[2], asked_questions)
        THEN Called(Ok(answers[2]), 2)
        ELSE IF answers[3] = Raises THEN Called(Raise(CollaboratorError), 3)
        ELSE IF ~_is_duplicate(answers[3], asked_questions)
        THEN Called(Ok(answers[3]), 3)
        ELSE Called(Ok(_fallback_question(state.topics_covered)), 3)

run_interviewer(state, answers) ==
    LET report == state.last_observer_report
        strategy == _select_strategy(report)
        question == _generate_question(state, answers)
    IN  IF question.raised THEN question
        ELSE
        LET agent_visible_message == question.update
        IN  Called(Ok(
               [last_interviewer_message |-> agent_visible_message,
                pending_interviewer_message |-> agent_visible_message,
                pending_internal_thoughts |-> _build_internal_thoughts(report, strategy),
                pending_report |-> report,
                pending_difficulty |-> state.difficulty,
                asked_questions |->
                    _update_asked_questions(state.asked_questions, agent_visible_message),
                topics_covered |->
                    _update_topics_from_question(state.topics_covered,
                                                 agent_visible_message)]),
               question.calls)

(***************************************************************************)
(* nodes/report.py                                                         *)
(***************************************************************************)
\* what the reporting collaborator may answer: a FinalFeedback, or a failure
\* (the call raises, or its answer fails FinalFeedback validation)
ReportResults == {[raises |-> FALSE, feedback |-> "FinalFeedback(junior)"],
                  [raises |-> TRUE, feedback |-> None]}

\* never empty: the grade and the confidence sentences are always present
_summarize_feedback(feedback) == "summary(junior)"

run_report(state, result) ==
    IF result.raises THEN Called(Raise(CollaboratorError), 1)
    ELSE LET summary == _summarize_feedback(result.feedback)
         IN  Called(Ok((IF summary # "" THEN [final_feedback_text |-> summary]
                                        ELSE <<>>)
                       @@ [final_feedback |-> result.feedback]), 1)

(***************************************************************************)
(* graph.py                                                                *)
(***************************************************************************)
\* variant: the topic index is not looked at
_should_finalize_any_index(state) ==
    IF state.stop_requested THEN TRUE
    ELSE IF state.last_observer_report = <<>> THEN FALSE
    ELSE state.last_observer_report[1].recommended_next_action
            \in {"WRAP_UP", "CHANGE_TOPIC"}

\* variant: only a WRAP_UP recommendation finalizes an exhausted plan
_should_finalize_wrap_up_only(state) ==
    IF state.stop_requested THEN TRUE
    ELSE IF IndexOrZero(state.current_topic_index) < 10 THEN FALSE
    ELSE IF state.last_observer_report = <<>> THEN FALSE
    ELSE state.last_observer_report[1].recommended_next_action = "WRAP_UP"

_should_finalize(state) ==
    IF state.stop_requested THEN TRUE
    ELSE IF IndexOrZero(state.current_topic_index) < 10 THEN FALSE
    ELSE IF state.last_observer_report = <<>> THEN FALSE
    ELSE state.last_observer_report[1].recommended_next_action
            \in {"WRAP_UP", "CHANGE_TOPIC"}

\* variant: every invocation goes to the final report
_route_after_observer_final(state) == "final_report"

_route_after_observer(state) ==
    IF _should_finalize(state) THEN "final_report"
    ELSE IF Len(state.pending_expert_nodes) # 0 THEN "experts_router"
    ELSE "difficulty"

_route_experts(state) ==
    LET pending == state.pending_expert_nodes
    IN  IF Len(pending) = 0 THEN "difficulty"
        ELSE IF pending[1] \in ExpertRole THEN _EXPERT_NODES[pending[1]]
        ELSE "difficulty"

\* the state a session starts from; difficulty is the caller's choice
InterviewState(difficulty, difficulty_reason) ==
    [stop_requested |-> FALSE,
     difficulty |-> difficulty,
     difficulty_reason |-> difficulty_reason,
     last_user_message |-> None,
     last_interviewer_message |-> None,
     pending_interviewer_message |-> None,
     pending_internal_thoughts |-> <<>>,
     pending_report |-> <<>>,
     pending_difficulty |-> None,
     last_observer_report |-> <<>>,
     skill_matrix |-> build_skill_baseline,
     topics_covered |-> <<>>,
     asked_questions |-> <<>>,
     planned_topics |-> <<>>,
     current_topic_index |-> NoIndex,
     expert_evaluations |-> <<>>,
     pending_expert_nodes |-> <<>>,
     turns |-> <<>>,
     observer_reports |-> <<>>,
     final_feedback |-> None,
     final_feedback_text |-> None,
     turn_log |-> <<>>]

NoCalls == [planner |-> 0, observer |-> 0, expert |-> 0, interviewer |-> 0, report |-> 0]

CallerVars == <<driver, max_turns, cpc, kind, st, invocations, last_logged_turn_id,
                logger, stop_reason, new_message, error, unit>>

(***************************************************************************)
(* cli.py: helpers of run_cli                                              *)
(***************************************************************************)
_should_stop(message) == Lower(Strip(message)) \in STOP_COMMANDS

_fallback_feedback(reason) == [text |-> "fallback", reason |-> reason]

_resolve_final_feedback(state, reason) ==
    IF Truthy(state.final_feedback_text) /\ Strip(state.final_feedback_text) # ""
    THEN [text |-> Strip(state.final_feedback_text), reason |-> None]
    ELSE IF state.final_feedback # None
    THEN [text |-> "str(final_feedback)", reason |-> None]
    ELSE _fallback_feedback(reason)

\* logger.set_final_feedback of _finalize_and_save, on logger lg
_finalize_and_save(lg, state, reason) ==
    [lg EXCEPT !.final_feedback = <<_resolve_final_feedback(state, reason)>>]

_extract_turn_log(state) ==
    IF state.turn_log # <<>> THEN state.turn_log
    ELSE IF Len(state.turns) # 0 THEN <<state.turns[Len(state.turns)]>>
    ELSE <<>>

\* the state after _update_observer_reports
_update_observer_reports(state) ==
    LET report == state.last_observer_report
    IN  IF report = <<>> THEN state
        ELSE IF report[1] \notin SeqToSet(state.observer_reports)
        THEN [state EXCEPT !.observer_reports = Append(@, report[1])]
        ELSE state

\* graph.invoke(state) begins: the graph works on a copy of the caller's state
BeginInvoke(state, k, fresh) ==
    /\ st' = state
    /\ gs' = state
    /\ kind' = k
    /\ new_message' = fresh
    /\ node' = "intake"
    /\ visited' = {}
    /\ calls' = NoCalls
    /\ plan_answer' = <<>>
    /\ base' = None
    /\ invocations' = invocations + 1
    /\ cpc' = "invoking"
    /\ error' = None

\* an exception leaves graph.invoke: run_cli catches it only around its
\* finalizing invocations, the other callers never do
ProtectedKinds == {"limit", "eof", "interrupt"}

RaiseInInvocation(e) ==
    /\ node' = "idle"
    /\ gs' = st
    /\ error' = e
    /\ IF driver = "cli" /\ kind \in ProtectedKinds
       THEN /\ logger' = _finalize_and_save(logger, st, stop_reason)
            /\ cpc' = "done"
       ELSE /\ logger' = logger
            /\ cpc' = "crashed"
    /\ UNCHANGED <<driver, max_turns, kind, st, invocations, last_logged_turn_id,
                   stop_reason, new_message, unit, reports_made>>

\* a node returned: its patch is merged and the next node is chosen
Merge(result, next) ==
    IF result.raised
    THEN RaiseInInvocation(result.error)
    ELSE /\ gs' = result.update @@ gs
         /\ node' = next
         /\ UNCHANGED <<CallerVars, reports_made>>

CanStep(n) == cpc = "invoking" /\ node = n

NodeIntake ==
    /\ CanStep("intake")
    /\ visited' = visited \cup {"intake"}
    /\ Merge(Ok(<<>>), "planner")
    /\ UNCHANGED <<calls, plan_answer, base>>

NodePlanner ==
    /\ CanStep("planner")
    /\ visited' = visited \cup {"planner"}
    /\ \E answer \in PlannerResults :
        LET result == run_planner(gs, answer)
        IN  /\ calls' = [calls EXCEPT !.planner = @ + result.calls]
            /\ plan_answer' = IF result.calls > 0 /\ ~answer.raises
                              THEN <<answer.topics>> ELSE plan_answer
            /\ base' = base
            /\ Merge(result, "observer")

NodeObserver ==
    /\ CanStep("observer")
    /\ visited' = visited \cup {"observer"}
    /\ \E decision \in ObserverResults :
        LET result == run_observer(gs, decision)
        IN  /\ calls' = [calls EXCEPT !.observer = @ + result.calls]
            /\ Merge(result,
                     IF result.raised THEN "idle"
                     ELSE _route_after_observer(result.update @@ gs))
    /\ UNCHANGED <<plan_answer, base>>

NodeExpertsRouter ==
    /\ CanStep("experts_router")
    /\ visited' = visited \cup {"experts_router"}
    /\ Merge(Ok(<<>>), _route_experts(gs))
    /\ UNCHANGED <<calls, plan_answer, base>>

\* the expert collaborator's calls are counted up to 1: the node may run
\* any number of times in one invocation
NodeExpert ==
    /\ cpc = "invoking" /\ node \in ExpertNodeNames
    /\ visited' = visited \cup {node}
    /\ \E answer \in ExpertResults :
        LET result == run_expert(RoleOfNode(node), gs, answer)
        IN  /\ calls' = [calls EXCEPT !.expert = Min(1, @ + result.calls)]
            /\ Merge(result, "experts_router")
    /\ UNCHANGED <<plan_answer, base>>

NodeDifficulty ==
    /\ CanStep("difficulty")
    /\ visited' = visited \cup {"difficulty"}
    /\ Merge(run_difficulty(gs), "interviewer")
    /\ UNCHANGED <<calls, plan_answer, base>>

NodeInterviewer ==
    /\ CanStep("interviewer")
    /\ visited' = visited \cup {"interviewer"}
    /\ \E answers \in InterviewerResults :
        LET result == run_interviewer(gs, answers)
        IN  /\ calls' = [calls EXCEPT !.interviewer = @ + result.calls]
            /\ base' = IF result.calls > 0 /\ answers[1] # Raises
                       THEN answers[1] ELSE base
            /\ Merge(result, "wait_for_user_input")
    /\ UNCHANGED plan_answer

NodeWaitForUserInput ==
    /\ CanStep("wait_for_user_input")
    /\ visited' = visited \cup {"wait_for_user_input"}
    /\ Merge(Ok(<<>>), "END")
    /\ UNCHANGED <<calls, plan_answer, base>>

\* variant: the Question Generator follows the final report
NodeFinalReport_then_interviewer ==
    /\ CanStep("final_report")
    /\ visited' = visited \cup {"final_report"}
    /\ \E answer \in ReportResults :
        LET result == run_report(gs, answer)
        IN  /\ calls' = [calls EXCEPT !.report = @ + result.calls]
            /\ IF result.raised
               THEN RaiseInInvocation(result.error)
               ELSE /\ gs' = result.update @@ gs
                    /\ node' = "interviewer"
                    /\ reports_made' = reports_made + 1
                    /\ UNCHANGED CallerVars
    /\ UNCHANGED <<plan_answer, base>>

NodeFinalReport ==
    /\ CanStep("final_report")
    /\ visited' = visited \cup {"final_report"}
    /\ \E answer \in ReportResults :
        LET result == run_report(gs, answer)
        IN  /\ calls' = [calls EXCEPT !.report = @ + result.calls]
            /\ IF result.raised
               THEN RaiseInInvocation(result.error)
               ELSE /\ gs' = result.update @@ gs
                    /\ node' = "END"
                    /\ reports_made' = reports_made + 1
                    /\ UNCHANGED CallerVars
    /\ UNCHANGED <<plan_answer, base>>

(***************************************************************************)
(* Candidate messages.  _prompt of run_cli returns stripped text.          *)
(***************************************************************************)
Msgs == {"", " ", "ans", "again", "STOP"}
CliMsgs == {m \in Msgs : Strip(m) = m}

EOFError == "<EOFError>"
KeyboardInterrupt == "<KeyboardInterrupt>"

(***************************************************************************)
(* cli.py: run_cli                                                         *)
(***************************************************************************)
CliInitialInvoke ==
    /\ driver = "cli"
    /\ cpc = "start"
    /\ BeginInvoke(st, "initial", FALSE)
    /\ UNCHANGED <<driver, max_turns, reports_made, last_logged_turn_id, logger,
                   stop_reason, unit>>

\* one pass of the while loop up to graph.invoke: a message, EOF or Ctrl-C
CliPrompt ==
    /\ driver = "cli"
    /\ cpc = "await_input"
    /\ invocations < MaxInvocations
    /\ \E input \in CliMsgs \cup {EOFError, KeyboardInterrupt} :
        IF input \in {EOFError, KeyboardInterrupt}
        THEN /\ stop_reason' = IF input = EOFError THEN "EOF" ELSE "KeyboardInterrupt"
             /\ BeginInvoke([st EXCEPT !.stop_requested = TRUE,
                                       !.last_user_message = ""],
                            IF input = EOFError THEN "eof" ELSE "interrupt", FALSE)
        ELSE /\ stop_reason' = IF _should_stop(input) THEN "stop command" ELSE stop_reason
             /\ BeginInvoke([st EXCEPT !.stop_requested = IF _should_stop(input)
                                                          THEN TRUE ELSE @,
                                       !.last_user_message = input],
                            "turn", TRUE)
    /\ UNCHANGED <<driver, max_turns, reports_made, last_logged_turn_id, logger, unit>>

\* graph.invoke returned: the rest of _invoke_graph and what run_cli does next
CliAfterInvoke ==
    /\ driver = "cli"
    /\ cpc = "invoking"
    /\ node = "END"
    /\ LET state == _update_observer_reports(gs)
           turn_log == _extract_turn_log(state)
           logged == turn_log # <<>> /\ turn_log[1].turn_id > last_logged_turn_id
           new_last == IF logged THEN turn_log[1].turn_id ELSE last_logged_turn_id
           lg == IF logged THEN [logger EXCEPT !.turns = Append(@, turn_log[1])]
                           ELSE logger
       IN  /\ last_logged_turn_id' = new_last
           /\ IF kind \in ProtectedKinds
              THEN /\ logger' = _finalize_and_save(lg, state, stop_reason)
                   /\ cpc' = "done" /\ node' = "idle"
                   /\ st' = state /\ gs' = state
                   /\ UNCHANGED <<kind, visited, calls, invocations, stop_reason,
                               new_message, plan_answer, base, error>>
              ELSE IF kind = "turn" /\ state.final_feedback # None
              THEN /\ logger' = _finalize_and_save(lg, state,
                                    IF stop_reason # None THEN stop_reason
                                    ELSE "final report requested")
                   /\ cpc' = "done" /\ node' = "idle"
                   /\ st' = state /\ gs' = state
                   /\ UNCHANGED <<kind, visited, calls, invocations, stop_reason,
                               new_message, plan_answer, base, error>>
              ELSE IF new_last >= max_turns
              THEN /\ logger' = lg
                   /\ stop_reason' = "max_turns limit"
                   /\ BeginInvoke([state EXCEPT !.stop_requested = TRUE], "limit", FALSE)
              ELSE /\ logger' = lg
                   /\ cpc' = "await_input" /\ node' = "idle"
                   /\ st' = state /\ gs' = state
                   /\ UNCHANGED <<kind, visited, calls, invocations, stop_reason,
                               new_message, plan_answer, base, error>>
    /\ UNCHANGED <<driver, max_turns, reports_made, unit>>

(***************************************************************************)
(* scenarios.py: run_scenario                                              *)
(***************************************************************************)
\* "hallucination=True" / "role_reversal=True" occurs in the rendered text
ThoughtsMention(thoughts, flag) ==
    /\ thoughts # <<>>
    /\ thoughts[1].observer # <<>>
    /\ IF flag = "hallucination" THEN thoughts[1].observer[1].hallucination
                                 ELSE thoughts[1].observer[1].role_reversal

_assert_internal_thoughts(turns) ==
    /\ \E i \in 1..Len(turns) : ThoughtsMention(turns[i].internal_thoughts, "hallucination")
    /\ \E i \in 1..Len(turns) : ThoughtsMention(turns[i].internal_thoughts, "role_reversal")

\* after the loop: the assertion, set_final_feedback and save
ScenarioFinish(lg, state) ==
    /\ node' = "idle"
    /\ st' = state /\ gs' = state
    /\ IF _assert_internal_thoughts(lg.turns)
       THEN /\ logger' = [lg EXCEPT !.final_feedback =
                            <<[text |-> IF Truthy(state.final_feedback_text)
                                        THEN state.final_feedback_text
                                        ELSE state.final_feedback,
                               reason |-> None]>>]
            /\ cpc' = "done"
       ELSE /\ logger' = lg
            /\ cpc' = "crashed"

ScenarioInitialInvoke ==
    /\ driver = "scenario"
    /\ cpc = "start"
    /\ BeginInvoke(st, "initial", FALSE)
    /\ UNCHANGED <<driver, max_turns, reports_made, last_logged_turn_id, logger,
                   stop_reason, unit>>

\* the next scripted message, or the end of the script
ScenarioNextMessage ==
    /\ driver = "scenario"
    /\ cpc = "await_input"
    /\ \/ /\ invocations < MaxInvocations
          /\ \E message \in Msgs :
                BeginInvoke([st EXCEPT !.last_user_message = message,
                                       !.stop_requested =
                                            IF Lower(Strip(message)) \in STOP_COMMANDS
                                            THEN TRUE ELSE @],
                            "turn", TRUE)
          /\ UNCHANGED logger
       \/ /\ ScenarioFinish(logger, st)
          /\ UNCHANGED <<kind, visited, calls, invocations, new_message,
                         plan_answer, base, error>>
    /\ UNCHANGED <<driver, max_turns, reports_made, last_logged_turn_id,
                   stop_reason, unit>>

ScenarioAfterInvoke ==
    /\ driver = "scenario"
    /\ cpc = "invoking"
    /\ node = "END"
    /\ LET state == _update_observer_reports(gs)
           turn_log == _extract_turn_log(state)
           lg == IF turn_log # <<>> THEN [logger EXCEPT !.turns = Append(@, turn_log[1])]
                                    ELSE logger
       IN  IF kind = "turn" /\ state.final_feedback # None
           THEN ScenarioFinish(lg, state)
           ELSE /\ logger' = lg
                /\ cpc' = "await_input" /\ node' = "idle"
                /\ st' = state /\ gs' = state
    /\ UNCHANGED <<driver, max_turns, kind, visited, calls, invocations, reports_made,
                   last_logged_turn_id, stop_reason, new_message, plan_answer, base,
                   error, unit>>

(***************************************************************************)
(* A direct caller of build_graph().invoke, as tests/test_graph_flow.py:   *)
(* it passes the state back with a new message, the same message, or the   *)
(* stop flag, and stops calling once final feedback exists.                *)
(***************************************************************************)
DirectInitialInvoke ==
    /\ driver = "direct"
    /\ cpc = "start"
    /\ BeginInvoke(st, "initial", FALSE)
    /\ UNCHANGED <<driver, max_turns, reports_made, last_logged_turn_id, logger,
                   stop_reason, unit>>

DirectNextInvoke ==
    /\ driver = "direct"
    /\ cpc = "await_input"
    /\ invocations < MaxInvocations
    /\ \E fresh \in BOOLEAN, message \in Msgs \ {"STOP"}, stop \in BOOLEAN :
            /\ fresh \/ message = OrEmpty(st.last_user_message)
            /\ BeginInvoke([st EXCEPT !.last_user_message =
                                            IF fresh THEN message ELSE @,
                                       !.stop_requested = @ \/ stop],
                            "turn", fresh)
    /\ UNCHANGED <<driver, max_turns, reports_made, last_logged_turn_id, logger,
                   stop_reason, unit>>

DirectAfterInvoke ==
    /\ driver = "direct"
    /\ cpc = "invoking"
    /\ node = "END"
    /\ st' = gs /\ gs' = gs
    /\ node' = "idle"
    /\ cpc' = IF gs.final_feedback # None THEN "done" ELSE "await_input"
    /\ UNCHANGED <<driver, max_turns, kind, visited, calls, invocations, reports_made,
                   last_logged_turn_id, logger, stop_reason, new_message,
                   plan_answer, base, error, unit>>

(***************************************************************************)
(* The sessions.                                                           *)
(***************************************************************************)
NoUnit == [fn |-> "none"]

Init ==
    /\ driver \in {"cli", "scenario", "direct"}
    /\ max_turns \in IF driver = "cli" THEN 1..MaxTurnsArg ELSE {0}
    /\ cpc = "start"
    /\ kind = "none"
    /\ st = CASE driver = "cli"      -> InterviewState("3", None)
              [] driver = "scenario" -> InterviewState("MEDIUM", "")
              [] driver = "direct"   -> InterviewState(None, None)
    /\ gs = st
    /\ node = "idle"
    /\ visited = {}
    /\ calls = NoCalls
    /\ invocations = 0
    /\ reports_made = 0
    /\ last_logged_turn_id = 0
    /\ logger = [turns |-> <<>>, final_feedback |-> <<>>]
    /\ stop_reason = None
    /\ new_message = FALSE
    /\ plan_answer = <<>>
    /\ base = None
    /\ error = None
    /\ unit = NoUnit

Next ==
    \/ CliInitialInvoke
    \/ CliPrompt
    \/ CliAfterInvoke
    \/ ScenarioInitialInvoke
    \/ ScenarioNextMessage
    \/ ScenarioAfterInvoke
    \/ DirectInitialInvoke
    \/ DirectNextInvoke
    \/ DirectAfterInvoke
    \/ NodeIntake
    \/ NodePlanner
    \/ NodeObserver
    \/ NodeExpertsRouter
    \/ NodeExpert
    \/ NodeDifficulty
    \/ NodeInterviewer
    \/ NodeWaitForUserInput
    \/ NodeFinalReport

Spec == Init /\ [][Next]_vars

(***************************************************************************)
(* Properties of the sessions.                                             *)
(***************************************************************************)

\* C1: the committed turn records carry the turn ids 1, 2, ..., K in order,
\* in the graph's state and in the caller's, and the list of records only
\* ever grows by appending: records already present are never changed,
\* removed or reordered.
C1_TurnIdsConsecutive ==
    /\ [](/\ \A i \in 1..Len(gs.turns) : gs.turns[i].turn_id = i
          /\ \A i \in 1..Len(st.turns) : st.turns[i].turn_id = i)
    /\ [][/\ Len(st.turns) <= Len(st'.turns)
          /\ SubSeq(st'.turns, 1, Len(st.turns)) = st.turns
          /\ cpc' = "invoking" =>
                /\ Len(gs.turns) <= Len(gs'.turns)
                /\ SubSeq(gs'.turns, 1, Len(gs.turns)) = gs.turns]_vars

\* two records were committed
C1_Witness == Len(st.turns) >= 2

\* C2: the first invocation of a fresh session never calls the observer
\* collaborator and commits no turn record, and when it ends it has produced
\* exactly one question, which is pending.
C2_FirstInvocation ==
    invocations = 1 =>
        /\ calls.observer = 0
        /\ gs.turns = <<>>
        /\ gs.turn_log = <<>>
        /\ node = "END" =>
            /\ Truthy(gs.pending_interviewer_message)
            /\ gs.last_interviewer_message = gs.pending_interviewer_message
            /\ gs.asked_questions = <<gs.pending_interviewer_message>>
            /\ calls.interviewer >= 1 \/ gs.pending_interviewer_message = FallbackPython

\* the first invocation has ended with its question
C2_Witness == invocations = 1 /\ cpc = "invoking" /\ node = "END"

\* an invocation is over: graph.invoke returned, or an exception other than a
\* failure of a collaborator left it
InvocationOver ==
    \/ cpc = "invoking" /\ node = "END"
    \/ node = "idle" /\ error \notin {None, CollaboratorError}

\* C3: an invocation that carries a non-empty candidate answer while a
\* question is pending appends exactly one turn record, made of that question
\* and that answer; in the second invocation of a session its turn_id is 1.
C3_AnswerCommitsOneRecord ==
    (/\ InvocationOver
     /\ new_message
     /\ Truthy(st.pending_interviewer_message)
     /\ Strip(st.last_user_message) # "")
    => /\ Len(gs.turns) = Len(st.turns) + 1
       /\ SubSeq(gs.turns, 1, Len(st.turns)) = st.turns
       /\ gs.turns[Len(gs.turns)].agent_visible_message = st.pending_interviewer_message
       /\ gs.turns[Len(gs.turns)].user_message = st.last_user_message
       /\ invocations = 2 => gs.turns[Len(gs.turns)].turn_id = 1

\* C4: every execution of run_cli that got its topic plan ends with a
\* non-empty final feedback text saved, whichever way it terminates and
\* whichever stage failed.
C4_CliAlwaysSavesFeedback ==
    (driver = "cli" /\ cpc \in {"done", "crashed"} /\ Len(st.planned_topics) # 0) =>
        /\ logger.final_feedback # <<>>
        /\ logger.final_feedback[1].text # ""

\* C5: an explicit stop message makes the reporting stage run exactly once, in
\* the invocation that receives the message; a session never holds more than
\* one report and the graph is never invoked again once final feedback exists.
C5_StopYieldsOneFeedback ==
    /\ reports_made <= 1
    /\ cpc = "invoking" => st.final_feedback = None
    /\ (/\ InvocationOver
        /\ kind = "turn"
        /\ new_message
        /\ _should_stop(st.last_user_message))
       => /\ reports_made = 1
          /\ calls.report = 1
          /\ gs.final_feedback # None

\* C6: finalization is terminal.  In an invocation that reaches the final
\* report stage the Question Generator does not run and no new pending
\* question is created, and once final feedback has been produced no turn
\* record is appended any more.
C6_FinalizationTerminal ==
    /\ []("final_report" \in visited =>
            /\ "interviewer" \notin visited
            /\ calls.interviewer = 0
            /\ gs.pending_interviewer_message \in {None, st.pending_interviewer_message}
            /\ gs.asked_questions = st.asked_questions)
    /\ [][gs.final_feedback # None =>
            /\ gs'.turns = gs.turns
            /\ st'.turns = gs.turns
            /\ cpc' # "invoking" \/ node' = "END"]_vars

\* a session was finalized after a record had been committed, and is over
C6_Witness ==
    /\ cpc = "done"
    /\ st.final_feedback # None
    /\ Len(st.turns) >= 1
    /\ "final_report" \in visited

\* the planning collaborator answered with a list that has not exactly
\* PlanLength entries, or an entry that is empty after trimming
MalformedPlanAnswer ==
    /\ plan_answer # <<>>
    /\ \/ Len(plan_answer[1]) # PlanLength
       \/ \E i \in 1..Len(plan_answer[1]) : Strip(plan_answer[1][i]) = ""

\* C7: a planner answer with a topic count other than 10, or with a topic that
\* is empty after trimming, aborts the session in the first invocation with a
\* validation error: no plan is stored, the Observer and the Question
\* Generator do not run, no question is produced and no turn record exists.
C7_MalformedPlanAborts ==
    MalformedPlanAnswer =>
        /\ invocations = 1
        /\ cpc = "crashed"
        /\ error = "ValueError"
        /\ st.planned_topics = <<>> /\ gs.planned_topics = <<>>
        /\ visited \cap {"observer", "interviewer"} = {}
        /\ calls.observer = 0 /\ calls.interviewer = 0
        /\ gs.pending_interviewer_message = None
        /\ gs.last_interviewer_message = None
        /\ gs.asked_questions = <<>>
        /\ gs.turns = <<>> /\ logger.turns = <<>>

\* the planner answered with nine topics
C7_Witness ==
    /\ plan_answer # <<>>
    /\ Len(plan_answer[1]) = PlanLength - 1
    /\ cpc = "crashed"

\* C8: a planner answer in which two topics are equal after trimming is
\* rejected with a validation error, so a stored plan always consists of 10
\* pairwise distinct topics.
C8_StoredPlanDistinct ==
    /\ (plan_answer # <<>> /\
        \E i, j \in 1..Len(plan_answer[1]) :
            i # j /\ Strip(plan_answer[1][i]) = Strip(plan_answer[1][j]))
       => (cpc = "crashed" /\ error = "ValueError")
    /\ Len(gs.planned_topics) # 0 =>
        /\ Len(gs.planned_topics) = PlanLength
        /\ \A i, j \in 1..Len(gs.planned_topics) :
              i # j => gs.planned_topics[i] # gs.planned_topics[j]

Difficulties == {None, "", "EASY", "MEDIUM", "HARD", " medium ", "easy", "hard",
                 "EXPERT", "0", "3"}

\* answer qualities in tenths, 0.0 to 5.0 in steps of 0.5, and one below and
\* one above the range
Qualities == {5 * q : q \in -1..11}

DifficultyInputs ==
    {[InterviewState(d, None) EXCEPT !.last_observer_report = r] :
        d \in Difficulties,
        r \in {<<>>} \cup
              {<<ObserverReport(None, q, 50, ObserverFlags(o, h, c, rr),
                                "ASK_DEEPER", None)>> :
                  q \in Qualities, o \in BOOLEAN, h \in BOOLEAN,
                  c \in BOOLEAN, rr \in BOOLEAN}}

InitDifficulty ==
    /\ driver = "unit"
    /\ max_turns = 0
    /\ cpc = "start"
    /\ kind = "none"
    /\ st \in DifficultyInputs
    /\ gs = st
    /\ node = "idle"
    /\ visited = {}
    /\ calls = NoCalls
    /\ invocations = 0
    /\ reports_made = 0
    /\ last_logged_turn_id = 0
    /\ logger = [turns |-> <<>>, final_feedback |-> <<>>]
    /\ stop_reason = None
    /\ new_message = FALSE
    /\ plan_answer = <<>>
    /\ base = None
    /\ error = None
    /\ unit = NoUnit

\* the node function is applied to st; gs is st with the patch merged
ApplyRunDifficulty ==
    /\ driver = "unit"
    /\ cpc = "start"
    /\ LET result == run_difficulty(st)
       IN  /\ unit' = [fn |-> "run_difficulty", result |-> result]
           /\ gs' = IF result.raised THEN st ELSE result.update @@ st
           /\ error' = result.error
    /\ cpc' = "done"
    /\ UNCHANGED <<driver, max_turns, kind, st, node, visited, calls, invocations,
                   reports_made, last_logged_turn_id, logger, stop_reason,
                   new_message, plan_answer, base>>

NextDifficulty == ApplyRunDifficulty

SpecDifficulty == InitDifficulty /\ [][NextDifficulty]_vars

\* C10: run_difficulty never changes the difficulty when the latest observer
\* report has role_reversal, off_topic or hallucination set, whatever the
\* answer quality and the current tier: it returns normally with a patch that
\* holds no difficulty.
C10_FlagsSuppressDifficulty ==
    (/\ unit # NoUnit
     /\ st.last_observer_report # <<>>
     /\ LET flags == st.last_observer_report[1].flags
        IN  flags.role_reversal \/ flags.off_topic \/ flags.hallucination)
    => /\ ~unit.result.raised
       /\ "difficulty" \notin DOMAIN unit.result.update
       /\ gs.difficulty = st.difficulty

\* run_difficulty was applied to the tier EASY and a report of quality 4.5
\* whose only flag is hallucination
C10_Witness ==
    /\ unit # NoUnit
    /\ st.difficulty = "EASY"
    /\ st.last_observer_report # <<>>
    /\ st.last_observer_report[1].answer_quality = 45
    /\ st.last_observer_report[1].flags = ObserverFlags(FALSE, TRUE, FALSE, FALSE)

(***************************************************************************)
(* run_difficulty applied again and again: every application gets a new    *)
(* report without suppression flags, all of quality >= 4.0 ("raise") or    *)
(* all of quality <= 2.0 ("lower").                                        *)
(***************************************************************************)
MaxReports == 4

\* the tiers as a state may spell them
TierSpellings == {"EASY", "MEDIUM", "HARD", " medium ", "easy", "hard"}

\* str(difficulty).strip().upper(), the tier run_difficulty takes the value for
TierOf(difficulty) == Upper(Strip(OrEmpty(difficulty)))

InitDifficultyRun ==
    /\ driver = "unit"
    /\ max_turns = 0
    /\ cpc = "repeat"
    /\ kind \in {"raise", "lower"}
    /\ st \in {InterviewState(d, None) : d \in TierSpellings}
    /\ gs = st
    /\ node = "idle"
    /\ visited = {}
    /\ calls = NoCalls
    /\ invocations = 0
    /\ reports_made = 0
    /\ last_logged_turn_id = 0
    /\ logger = [turns |-> <<>>, final_feedback |-> <<>>]
    /\ stop_reason = None
    /\ new_message = FALSE
    /\ plan_answer = <<>>
    /\ base = None
    /\ error = None
    /\ unit = [fn |-> "run_difficulty", start |-> st.difficulty]

\* st is the state the function is applied to, gs is st with the patch merged
ApplyRunDifficultyAgain ==
    /\ driver = "unit"
    /\ cpc = "repeat"
    /\ invocations < MaxReports
    /\ \E q \in Qualities, c \in BOOLEAN :
        /\ IF kind = "raise" THEN q >= 40 ELSE q <= 20
        /\ LET report == ObserverReport(None, q, 50,
                                        ObserverFlags(FALSE, FALSE, c, FALSE),
                                        "ASK_DEEPER", None)
               state == [gs EXCEPT !.last_observer_report = <<report>>]
               result == run_difficulty(state)
           IN  /\ st' = state
               /\ gs' = IF result.raised THEN state ELSE result.update @@ state
               /\ error' = result.error
    /\ invocations' = invocations + 1
    /\ UNCHANGED <<driver, max_turns, cpc, kind, node, visited, calls, reports_made,
                   last_logged_turn_id, logger, stop_reason, new_message,
                   plan_answer, base, unit>>

NextDifficultyRun == ApplyRunDifficultyAgain

SpecDifficultyRun == InitDifficultyRun /\ [][NextDifficultyRun]_vars

\* C11: from any tier, (number of tiers - 1) consecutive reports of quality
\* >= 4.0 without suppression flags bring the difficulty to the top tier, and
\* it is the top tier after every further such report; with reports of
\* quality <= 2.0 the same holds for the bottom tier.
C11_TierSaturates ==
    invocations >= Len(order) - 1 =>
        /\ error = None
        /\ TierOf(gs.difficulty) = IF kind = "raise" THEN order[Len(order)] ELSE order[1]

\* EASY was raised to HARD and stayed HARD under one more report
C11_Witness ==
    /\ kind = "raise"
    /\ unit.start = "EASY"
    /\ invocations = Len(order)
    /\ st.difficulty = "HARD"
    /\ gs.difficulty = "HARD"

(***************************************************************************)
(* A session late in its plan.  The state is the one a direct caller holds *)
(* after nine invocations in which the planner gave GoodPlan,              *)
(* the candidate complained of a repeated question every time, the         *)
(* Observer advanced the topic every time and chose no expert.  From there *)
(* the caller and the collaborators are free again.                        *)
(***************************************************************************)
\* graph.invoke as a function, for an invocation without stop flag, without
\* experts and without failures: the patches of the nodes merged in turn
InvokeOnce(state, decision, answers) ==
    LET planned == run_planner(state, [raises |-> FALSE, topics |-> GoodPlan]).update @@ state
        observed == run_observer(planned, decision).update @@ planned
        adjusted == run_difficulty(observed).update @@ observed
    IN  run_interviewer(adjusted, answers).update @@ adjusted

\* one more invocation of that session: the complaint, the advance
PlayTurn(state) ==
    InvokeOnce([state EXCEPT !.last_user_message = "again"],
               [raises |-> FALSE, ask_deeper |-> FALSE, advance_topic |-> TRUE,
                expert_roles |-> <<>>],
               [i \in 1..(1 + MAX_REWRITE_ATTEMPTS) |-> "Tell me about Kafka."])

\* the state after the first invocation, and after each further one
SessionAfter1 ==
    InvokeOnce(InterviewState(None, None),
               [raises |-> FALSE, ask_deeper |-> FALSE, advance_topic |-> FALSE,
                expert_roles |-> <<>>],
               [i \in 1..(1 + MAX_REWRITE_ATTEMPTS) |-> "Tell me about Kafka."])
SessionAfter2 == PlayTurn(SessionAfter1)
SessionAfter3 == PlayTurn(SessionAfter2)
SessionAfter4 == PlayTurn(SessionAfter3)
SessionAfter5 == PlayTurn(SessionAfter4)
SessionAfter6 == PlayTurn(SessionAfter5)
SessionAfter7 == PlayTurn(SessionAfter6)
SessionAfter8 == PlayTurn(SessionAfter7)
SessionAfter9 == PlayTurn(SessionAfter8)

InitLate ==
    /\ driver = "direct"
    /\ max_turns = 0
    /\ cpc = "await_input"
    /\ kind = "turn"
    /\ st = SessionAfter9
    /\ gs = st
    /\ node = "idle"
    /\ visited = {}
    /\ calls = NoCalls
    /\ invocations = 0          \* counted from this state on
    /\ reports_made = 0
    /\ last_logged_turn_id = 0
    /\ logger = [turns |-> <<>>, final_feedback |-> <<>>]
    /\ stop_reason = None
    /\ new_message = TRUE
    /\ plan_answer = <<>>
    /\ base = None
    /\ error = None
    /\ unit = NoUnit

NextLate ==
    \/ DirectNextInvoke
    \/ DirectAfterInvoke
    \/ NodeIntake
    \/ NodePlanner
    \/ NodeObserver
    \/ NodeExpertsRouter
    \/ NodeExpert
    \/ NodeDifficulty
    \/ NodeInterviewer
    \/ NodeWaitForUserInput
    \/ NodeFinalReport

SpecLate == InitLate /\ [][NextLate]_vars

\* C12: the topic index never decreases and never exceeds the plan length;
\* within one invocation it grows by at most 1, and only in the Observer's
\* step when the decision signals an advance (the report then recommends
\* CHANGE_TOPIC).
C12_TopicIndexMonotone ==
    /\ [](/\ IndexOrZero(st.current_topic_index) \in 0..PlanLength
          /\ IndexOrZero(gs.current_topic_index) \in 0..PlanLength
          /\ cpc = "invoking" =>
                IndexOrZero(gs.current_topic_index)
                    <= IndexOrZero(st.current_topic_index) + 1)
    /\ [][/\ IndexOrZero(st'.current_topic_index) >= IndexOrZero(st.current_topic_index)
          /\ cpc' = "invoking" =>
                IndexOrZero(gs'.current_topic_index) >= IndexOrZero(gs.current_topic_index)
          /\ (/\ cpc' = "invoking"
              /\ IndexOrZero(gs'.current_topic_index) # IndexOrZero(gs.current_topic_index))
             => /\ node = "observer"
                /\ IndexOrZero(gs'.current_topic_index)
                      = IndexOrZero(gs.current_topic_index) + 1
                /\ gs'.last_observer_report # <<>>
                /\ gs'.last_observer_report[1].recommended_next_action = "CHANGE_TOPIC"]_vars

\* the index has gone from 8 to the plan length in two invocations
C12_Witness ==
    /\ st.current_topic_index = PlanLength
    /\ invocations = 2
    /\ cpc = "done"

\* C13: no two distinct entries of asked_questions have a normalized
\* similarity of 0.85 or more, whichever path produced the questions.
C13_NoNearDuplicateQuestions ==
    \A i, j \in 1..Len(gs.asked_questions) :
        i # j =>
            _similarity_ratio(_normalize_text(gs.asked_questions[i]),
                              _normalize_text(gs.asked_questions[j]))
                < SIMILARITY_THRESHOLD

\* C14: when the first text of the question collaborator duplicates a
\* question asked before, the rewrite path is taken, and the question that
\* is finally accepted is neither identical to that asked question nor
\* similar to it at 0.85 or above.
C14_RewriteAvoidsDuplicate ==
    (/\ cpc = "invoking"
     /\ "interviewer" \in visited
     /\ base # None)
    => \A i \in 1..Len(st.asked_questions) :
          _similarity_ratio(_normalize_text(base),
                            _normalize_text(st.asked_questions[i]))
              >= SIMILARITY_THRESHOLD
          => /\ calls.interviewer >= 2
             /\ gs.last_interviewer_message # st.asked_questions[i]
             /\ _similarity_ratio(_normalize_text(gs.last_interviewer_message),
                                  _normalize_text(st.asked_questions[i]))
                    < SIMILARITY_THRESHOLD

\* C15: every skill level held in the session's skill matrix lies in [1,5],
\* from the initialisation of the session on.
C15_SkillLevelsInRange ==
    /\ \A k \in DOMAIN st.skill_matrix : st.skill_matrix[k] \in 1..5
    /\ \A k \in DOMAIN gs.skill_matrix : gs.skill_matrix[k] \in 1..5

(***************************************************************************)
(* The turn cycle with flagged reports.  run_observer commits the pending  *)
(* question with the answer and run_interviewer asks the next question, as *)
(* in the graph; the report on each answer is drawn from FlaggedReports in *)
(* place of the one _build_report makes, whose flags are always false.     *)
(***************************************************************************)
MaxCycles == 2

FlaggedReports ==
    {ObserverReport("python_basics", 32, 65, ObserverFlags(FALSE, h, FALSE, rr),
                    "ASK_DEEPER", "advance") :
        h \in BOOLEAN, rr \in BOOLEAN}

\* the question collaborator gives the same text on every call
SteadyInterviewerResults ==
    {answers \in InterviewerResults :
        /\ answers[1] # Raises
        /\ \A n \in DOMAIN answers : answers[n] = answers[1]}

\* the evaluations that expert roles have left in the state
ExpertMaps ==
    {<<>>, "qa" :> "comment", ("qa" :> "comment") @@ ("tech_lead" :> "comment")}

\* the first answer has been committed by run_observer
FirstAnswerObserved ==
    LET state == [SessionAfter1 EXCEPT !.last_user_message = "ans"]
    IN  run_observer(state, [raises |-> FALSE, ask_deeper |-> FALSE,
                             advance_topic |-> FALSE, expert_roles |-> <<>>]).update
            @@ state

InitTurnCycle ==
    /\ driver = "unit"
    /\ max_turns = 0
    /\ cpc = "observed"
    /\ kind = "none"
    /\ \E r \in FlaggedReports, ev \in ExpertMaps :
            st = [FirstAnswerObserved EXCEPT !.last_observer_report = <<r>>,
                                             !.expert_evaluations = ev]
    /\ gs = st
    /\ node = "idle"
    /\ visited = {}
    /\ calls = NoCalls
    /\ invocations = 1
    /\ reports_made = 0
    /\ last_logged_turn_id = 0
    /\ logger = [turns |-> <<>>, final_feedback |-> <<>>]
    /\ stop_reason = None
    /\ new_message = TRUE
    /\ plan_answer = <<>>
    /\ base = None
    /\ error = None
    /\ unit = [fn |-> "run_interviewer"]

\* run_interviewer on the state the Observer left
ApplyRunInterviewer ==
    /\ driver = "unit"
    /\ cpc = "observed"
    /\ \E answers \in SteadyInterviewerResults :
        LET result == run_interviewer(gs, answers)
        IN  /\ ~result.raised
            /\ st' = gs
            /\ gs' = result.update @@ gs
    /\ cpc' = "asked"
    /\ UNCHANGED <<driver, max_turns, kind, node, visited, calls, invocations,
                   reports_made, last_logged_turn_id, logger, stop_reason,
                   new_message, plan_answer, base, error, unit>>

\* the next answer arrives and run_observer commits it; its report is drawn
ApplyRunObserver ==
    /\ driver = "unit"
    /\ cpc = "asked"
    /\ invocations <= MaxCycles
    /\ \E message \in {"ans", "again"}, r \in FlaggedReports :
        LET state == [gs EXCEPT !.last_user_message = message]
            result == run_observer(state, [raises |-> FALSE, ask_deeper |-> FALSE,
                                           advance_topic |-> FALSE,
                                           expert_roles |-> <<>>])
        IN  /\ st' = state
            /\ gs' = [result.update @@ state EXCEPT !.last_observer_report = <<r>>]
    /\ cpc' = "observed"
    /\ invocations' = invocations + 1
    /\ UNCHANGED <<driver, max_turns, kind, node, visited, calls, reports_made,
                   last_logged_turn_id, logger, stop_reason, new_message,
                   plan_answer, base, error, unit>>

NextTurnCycle == ApplyRunInterviewer \/ ApplyRunObserver

SpecTurnCycle == InitTurnCycle /\ [][NextTurnCycle]_vars

C17_StopSkipsObserver ==
    (cpc = "invoking" /\ st.stop_requested)
    => /\ gs.turns = st.turns
       /\ calls.observer = 0

\* C18: the step that follows the Observer goes to the final report exactly
\* when the stop flag is set, or the topic index has reached the plan length
\* and the latest report recommends WRAP_UP or CHANGE_TOPIC; otherwise it
\* goes on towards the next question (the expert panel or the difficulty
\* step).
C18_FinalizeExactlyWhenDue ==
    [][(node = "observer" /\ node' # "idle")
       => LET due == \/ gs'.stop_requested
                     \/ /\ gs'.current_topic_index >= Len(gs'.planned_topics)
                        /\ gs'.last_observer_report # <<>>
                        /\ gs'.last_observer_report[1].recommended_next_action
                               \in {"WRAP_UP", "CHANGE_TOPIC"}
          IN  /\ (node' = "final_report") <=> due
              /\ ~due => node' \in {"experts_router", "difficulty"}]_vars

\* the plan's end was reached without a stop request, and the invocation
\* went to the final report
C18_Witness ==
    /\ node = "final_report"
    /\ ~gs.stop_requested
    /\ gs.current_topic_index = PlanLength
    /\ gs.last_observer_report[1].recommended_next_action = "CHANGE_TOPIC"

\* C19: when the Observer has selected expert roles, the panel completes
\* within the invocation: every time control is back at the experts router,
\* the router goes on to a node that has not yet run in this invocation (the
\* next selected role, and after the last one the difficulty step that leads
\* to the Question Generator), so no role runs twice and the loop ends.
C19_ExpertPanelCompletes ==
    (cpc = "invoking" /\ node = "experts_router")
    => _route_experts(gs) \notin visited

\* C20: after the expert panel has run for the selected roles, the map
\* expert_evaluations holds an evaluation for every selected role.  (The
\* panel has run when the experts router has no new node left to start: its
\* next node is the difficulty step or an expert node that already ran.)
C20_EverySelectedRoleEvaluated ==
    (/\ cpc = "invoking"
     /\ node = "experts_router"
     /\ visited \cap ExpertNodeNames # {}
     /\ _route_experts(gs) \in visited \cup {"difficulty"})
    => \A i \in 1..Len(gs.pending_expert_nodes) :
            gs.pending_expert_nodes[i] \in DOMAIN gs.expert_evaluations

\* C21: in an invocation the stages run in the order Observer, Difficulty
\* Engine, Expert Panel, Question Generator: an expert role runs only after
\* the difficulty step of the invocation has run, and the difficulty step
\* only after the Observer.
C21_DifficultyBeforeExperts ==
    cpc = "invoking"
    => /\ (visited \cap ExpertNodeNames # {} => "difficulty" \in visited)
       /\ ("difficulty" \in visited => "observer" \in visited)
       /\ ("interviewer" \in visited => "difficulty" \in visited)

\* C22: with none of the flags role_reversal, off_topic, hallucination set,
\* one application of run_difficulty to a known tier returns normally and
\* yields the next higher tier (HARD stays HARD) for a quality of 4.0 or
\* more, the next lower tier (EASY stays EASY) for a quality of 2.0 or less,
\* and the same tier in between; the result is one of the three tiers.
C22_DifficultyTransition ==
    (/\ unit # NoUnit
     /\ st.last_observer_report # <<>>
     /\ LET flags == st.last_observer_report[1].flags
        IN  ~(flags.role_reversal \/ flags.off_topic \/ flags.hallucination)
     /\ ~IsInt(st.difficulty)
     /\ TierOf(st.difficulty) \in {"EASY", "MEDIUM", "HARD"})
    => LET tier == TierOf(st.difficulty)
           quality == st.last_observer_report[1].answer_quality
           higher == IF tier = "EASY" THEN "MEDIUM" ELSE "HARD"
           lower == IF tier = "HARD" THEN "MEDIUM" ELSE "EASY"
       IN  /\ error = None
           /\ TierOf(gs.difficulty) \in {"EASY", "MEDIUM", "HARD"}
           /\ TierOf(gs.difficulty) = IF quality >= 40 THEN higher
                                      ELSE IF quality <= 20 THEN lower
                                      ELSE tier

\* run_difficulty was applied to the tier MEDIUM with an unflagged report of
\* quality 2.0, and the tier became EASY
C22_Witness ==
    /\ unit # NoUnit
    /\ st.difficulty = "MEDIUM"
    /\ st.last_observer_report # <<>>
    /\ st.last_observer_report[1].answer_quality = 20
    /\ st.last_observer_report[1].flags = ObserverFlags(FALSE, FALSE, TRUE, FALSE)
    /\ gs.difficulty = "EASY"

(***************************************************************************)
(* _select_strategy applied once to a report (or to no report).            *)
(***************************************************************************)
StrategyInputs ==
    {<<>>} \cup
    {<<ObserverReport("python_basics", 32, 65, ObserverFlags(o, h, c, rr), a, None)>> :
        o \in BOOLEAN, h \in BOOLEAN, c \in BOOLEAN, rr \in BOOLEAN,
        a \in NextAction}

InitStrategy ==
    /\ driver = "unit"
    /\ max_turns = 0
    /\ cpc = "start"
    /\ kind = "none"
    /\ \E r \in StrategyInputs :
            st = [InterviewState(None, None) EXCEPT !.last_observer_report = r]
    /\ gs = st
    /\ node = "idle"
    /\ visited = {}
    /\ calls = NoCalls
    /\ invocations = 0
    /\ reports_made = 0
    /\ last_logged_turn_id = 0
    /\ logger = [turns |-> <<>>, final_feedback |-> <<>>]
    /\ stop_reason = None
    /\ new_message = FALSE
    /\ plan_answer = <<>>
    /\ base = None
    /\ error = None
    /\ unit = NoUnit

ApplySelectStrategy ==
    /\ driver = "unit"
    /\ cpc = "start"
    /\ unit' = [fn |-> "_select_strategy",
                result |-> _select_strategy(st.last_observer_report)]
    /\ cpc' = "done"
    /\ UNCHANGED <<driver, max_turns, kind, st, gs, node, visited, calls,
                   invocations, reports_made, last_logged_turn_id, logger,
                   stop_reason, new_message, plan_answer, base, error>>

NextStrategy == ApplySelectStrategy

SpecStrategy == InitStrategy /\ [][NextStrategy]_vars

\* C23: in strategy selection the flags take priority over the recommended
\* action: role_reversal set yields the role-reversal strategy
\* (answer_candidate_question) whatever the action, otherwise off_topic set
\* yields return_to_topic, otherwise hallucination set yields the
\* hallucination strategy (handle_hallucination); only with none of the
\* three flags set does the action choose, and every result is one of the
\* eight strategies.
C23_FlagsBeforeAction ==
    (unit # NoUnit /\ unit.fn = "_select_strategy")
    => /\ unit.result \in {"deepen", "simplify", "change_topic", "return_to_topic",
                           "handle_hallucination", "answer_candidate_question",
                           "wrap_up", "ask_standard"}
       /\ st.last_observer_report # <<>> =>
            LET flags == st.last_observer_report[1].flags
                action == st.last_observer_report[1].recommended_next_action
                byAction ==
                    CASE action = "ASK_DEEPER" -> "deepen"
                      [] action = "ASK_EASIER" -> "simplify"
                      [] action = "CHANGE_TOPIC" -> "change_topic"
                      [] action = "HANDLE_OFFTOPIC" -> "return_to_topic"
                      [] action = "HANDLE_HALLUCINATION" -> "handle_hallucination"
                      [] action = "HANDLE_ROLE_REVERSAL" -> "answer_candidate_question"
                      [] action = "WRAP_UP" -> "wrap_up"
                      [] OTHER -> "ask_standard"
            IN  /\ flags.role_reversal => unit.result = "answer_candidate_question"
                /\ (~flags.role_reversal /\ flags.off_topic)
                        => unit.result = "return_to_topic"
                /\ (~flags.role_reversal /\ ~flags.off_topic /\ flags.hallucination)
                        => unit.result = "handle_hallucination"
                /\ (~flags.role_reversal /\ ~flags.off_topic /\ ~flags.hallucination)
                        => unit.result = byAction

\* the report has role_reversal and off_topic set and recommends WRAP_UP,
\* and the strategy chosen is the one for role reversal
C23_Witness ==
    /\ unit # NoUnit
    /\ unit.fn = "_select_strategy"
    /\ st.last_observer_report # <<>>
    /\ st.last_observer_report[1].flags = ObserverFlags(TRUE, FALSE, FALSE, TRUE)
    /\ st.last_observer_report[1].recommended_next_action = "WRAP_UP"
    /\ unit.result = "answer_candidate_question"

FallbackPlans ==
    {GoodPlan,
     <<"async", "python_basics", "db_modeling", "queues", "observability",
       "architecture", "testing", "rag_langchain", "security", "caching">>,
     [i \in 1..PlanLength |-> GoodPlan[PlanLength + 1 - i]]}

\* covered topics: the first topics of a plan or of TOPIC_SEQUENCE, or the
\* topics inferred from the questions asked
CoveredLists ==
    {SubSeq(p, 1, k) : p \in FallbackPlans \cup {TOPIC_SEQUENCE}, k \in 0..Len(TOPIC_SEQUENCE)}
    \cup {<<"queues">>, <<"queues", "python_basics">>, <<"python_basics", "queues">>}

InitFallback ==
    /\ driver = "unit"
    /\ max_turns = 0
    /\ cpc = "start"
    /\ kind = "none"
    /\ \E plan \in FallbackPlans, covered \in CoveredLists :
            st = [InterviewState(None, None) EXCEPT !.planned_topics = plan,
                                                    !.current_topic_index = 0,
                                                    !.topics_covered = covered]
    /\ gs = st
    /\ node = "idle"
    /\ visited = {}
    /\ calls = NoCalls
    /\ invocations = 0
    /\ reports_made = 0
    /\ last_logged_turn_id = 0
    /\ logger = [turns |-> <<>>, final_feedback |-> <<>>]
    /\ stop_reason = None
    /\ new_message = FALSE
    /\ plan_answer = <<>>
    /\ base = None
    /\ error = None
    /\ unit = NoUnit

ApplyFallbackQuestion ==
    /\ driver = "unit"
    /\ cpc = "start"
    /\ unit' = [fn |-> "_fallback_question",
                result |-> _fallback_question(st.topics_covered)]
    /\ cpc' = "done"
    /\ UNCHANGED <<driver, max_turns, kind, st, gs, node, visited, calls,
                   invocations, reports_made, last_logged_turn_id, logger,
                   stop_reason, new_message, plan_answer, base, error>>

NextFallback == ApplyFallbackQuestion

SpecFallback == InitFallback /\ [][NextFallback]_vars

\* C25: the fallback question is the one for the first topic, in the order
\* of the session's plan, that is not yet covered (checked where that topic
\* has a fallback template), and the generic prompt when every topic of the
\* plan is covered.
C25_FallbackFollowsPlan ==
    (unit # NoUnit /\ unit.fn = "_fallback_question")
    => LET plan == st.planned_topics
           covered == SeqToSet(st.topics_covered)
           uncovered == {i \in 1..Len(plan) : plan[i] \notin covered}
       IN  IF uncovered = {} THEN unit.result = FallbackGeneric
           ELSE LET first == plan[CHOOSE i \in uncovered : \A j \in uncovered : i <= j]
                IN  first \in DOMAIN templates => unit.result = templates[first]

C27_SingleWriterPerField ==
    [][(cpc = "invoking" /\ cpc' = "invoking")
       => /\ gs'.asked_questions # gs.asked_questions => node = "interviewer"
          /\ gs'.turns # gs.turns => node = "observer"
          /\ gs'.current_topic_index # gs.current_topic_index => node = "observer"
          /\ gs'.skill_matrix # gs.skill_matrix => node = "observer"]_vars

\* C28: the planning collaborator is called only when the state holds no
\* plan.  A planner step that finds no plan and succeeds makes one call,
\* stores a plan of PlanLength topics and sets the topic index to 0; a
\* planner step that finds a plan makes no call and changes nothing.  Once
\* stored, the plan never changes and the topic index is never reset.
C28_PlannerRunsOnce ==
    [][/\ (cpc = "invoking" /\ node = "planner" /\ Len(gs.planned_topics) # 0)
            => /\ calls'.planner = calls.planner
               /\ gs' = gs
               /\ node' = "observer"
       /\ (cpc = "invoking" /\ node = "planner" /\ Len(gs.planned_topics) = 0)
            => /\ calls'.planner = calls.planner + 1
               /\ error' = None
                    => /\ Len(gs'.planned_topics) = PlanLength
                       /\ gs'.current_topic_index = 0
       /\ Len(st.planned_topics) # 0
            => /\ st'.planned_topics = st.planned_topics
               /\ gs'.planned_topics = st.planned_topics
               /\ st'.current_topic_index >= st.current_topic_index
               /\ gs'.current_topic_index >= st.current_topic_index]_vars

\* an invocation with the topic index beyond 0 has passed its planner step
\* without a call
C28_Witness ==
    /\ cpc = "invoking"
    /\ "planner" \in visited
    /\ node = "observer"
    /\ calls.planner = 0
    /\ gs.current_topic_index = 1
    /\ Len(gs.planned_topics) = PlanLength

(***************************************************************************)
(* An ObserverReport built from a numeric answer quality (in tenths) and a *)
(* numeric confidence (in hundredths), in range or not.                    *)
(***************************************************************************)
RawQualities == {5 * q : q \in -3..13}

RawConfidences == {10 * c : c \in -3..13}

InitReport ==
    /\ driver = "unit"
    /\ max_turns = 0
    /\ cpc = "start"
    /\ kind = "none"
    /\ st = InterviewState(None, None)
    /\ gs = st
    /\ node = "idle"
    /\ visited = {}
    /\ calls = NoCalls
    /\ invocations = 0
    /\ reports_made = 0
    /\ last_logged_turn_id = 0
    /\ logger = [turns |-> <<>>, final_feedback |-> <<>>]
    /\ stop_reason = None
    /\ new_message = FALSE
    /\ plan_answer = <<>>
    /\ base = None
    /\ error = None
    /\ \E q \in RawQualities, c \in RawConfidences :
            unit = [fn |-> "input", answer_quality |-> q, confidence |-> c]

\* the report is built and stored as the state's latest report
ApplyObserverReport ==
    /\ driver = "unit"
    /\ cpc = "start"
    /\ LET report == ObserverReport("python_basics", unit.answer_quality,
                                    unit.confidence,
                                    ObserverFlags(FALSE, FALSE, FALSE, FALSE),
                                    "ASK_DEEPER", "advance")
       IN  /\ gs' = [gs EXCEPT !.last_observer_report = <<report>>]
           /\ unit' = [unit EXCEPT !.fn = "ObserverReport"]
    /\ cpc' = "done"
    /\ UNCHANGED <<driver, max_turns, kind, st, node, visited, calls,
                   invocations, reports_made, last_logged_turn_id, logger,
                   stop_reason, new_message, plan_answer, base, error>>

NextReport == ApplyObserverReport

SpecReport == InitReport /\ [][NextReport]_vars

\* C29: building an ObserverReport from a numeric answer quality and a
\* numeric confidence always succeeds: the stored answer quality is the
\* given one brought into [0.0, 5.0] and the stored confidence the given one
\* brought into [0.0, 1.0]; a value within the range is stored as given.
C29_ReportClampsNumbers ==
    unit.fn = "ObserverReport"
    => LET report == gs.last_observer_report[1]
           q == unit.answer_quality
           c == unit.confidence
       IN  /\ error = None
           /\ report.answer_quality \in 0..50
           /\ report.confidence \in 0..100
           /\ q \in 0..50 => report.answer_quality = q
           /\ c \in 0..100 => report.confidence = c
           /\ q < 0 => report.answer_quality = 0
           /\ q > 50 => report.answer_quality = 50
           /\ c < 0 => report.confidence = 0
           /\ c > 100 => report.confidence = 100

\* a report was built from the quality 6.5 and the confidence -0.3
C29_Witness ==
    /\ unit.fn = "ObserverReport"
    /\ unit.answer_quality = 65
    /\ unit.confidence = -30
    /\ gs.last_observer_report[1].answer_quality = 50
    /\ gs.last_observer_report[1].confidence = 0

\* C30: a pending question is never overwritten by a newly generated one: the
\* pending question changes only when it is absent, or when the Observer
\* commits it, together with an answer, as the visible question of a new
\* turn record.
C30_PendingQuestionNotOverwritten ==
    [][(/\ cpc = "invoking"
        /\ cpc' = "invoking"
        /\ Truthy(gs.pending_interviewer_message)
        /\ gs'.pending_interviewer_message # gs.pending_interviewer_message)
       => /\ node = "observer"
          /\ Len(gs'.turns) = Len(gs.turns) + 1
          /\ gs'.turns[Len(gs'.turns)].agent_visible_message
                = gs.pending_interviewer_message]_vars

C32_RecordShowsOwnReport ==
    [][(/\ cpc = "invoking"
        /\ node = "observer"
        /\ cpc' = "invoking"
        /\ Len(gs'.turns) = Len(gs.turns) + 1)
       => LET record == gs'.turns[Len(gs'.turns)]
              report == gs'.last_observer_report
          IN  /\ report # <<>>
              /\ record.flags = <<report[1].flags>>
              /\ record.topic = report[1].detected_topic
              /\ record.skills_delta = report[1].skills_delta]_vars

\* C33: in a session started by run_cli or run_scenario the difficulty is a
\* member of the tier set (EASY, MEDIUM, HARD) in every state, and neither
\* run_difficulty nor the validation of a turn record fails on it.
C33_OneDifficultyRepresentation ==
    driver \in {"cli", "scenario"}
    => /\ st.difficulty \in SeqToSet(order)
       /\ gs.difficulty \in SeqToSet(order)
       /\ error \notin {"AttributeError", "ValidationError"}

(***************************************************************************)
(* The callers' accumulation of reports: in each round run_observer makes  *)
(* a report on a new answer and the caller applies                         *)
(* _update_observer_reports to the state that comes back.                  *)
(***************************************************************************)
InitAccumulate ==
    /\ driver = "unit"
    /\ max_turns = 0
    /\ cpc = "accumulate"
    /\ kind = "none"
    /\ st = SessionAfter1
    /\ gs = st
    /\ node = "idle"
    /\ visited = {}
    /\ calls = NoCalls
    /\ invocations = 0
    /\ reports_made = 0
    /\ last_logged_turn_id = 0
    /\ logger = [turns |-> <<>>, final_feedback |-> <<>>]
    /\ stop_reason = None
    /\ new_message = FALSE
    /\ plan_answer = <<>>
    /\ base = None
    /\ error = None
    /\ unit = [fn |-> "_update_observer_reports"]

ObserveAndAccumulate ==
    /\ driver = "unit"
    /\ cpc = "accumulate"
    /\ invocations < MaxReports
    /\ \E message \in {"ans", "again"},
          decision \in {d \in ObserverResults : ~d.raises /\ d.expert_roles = <<>>} :
        LET state == [gs EXCEPT !.last_user_message = message]
            result == run_observer(state, decision)
        IN  /\ ~result.raised
            /\ st' = state
            /\ gs' = _update_observer_reports(result.update @@ state)
    /\ invocations' = invocations + 1
    /\ UNCHANGED <<driver, max_turns, cpc, kind, node, visited, calls,
                   reports_made, last_logged_turn_id, logger, stop_reason,
                   new_message, plan_answer, base, error, unit>>

NextAccumulate == ObserveAndAccumulate

SpecAccumulate == InitAccumulate /\ [][NextAccumulate]_vars

C35_SkillMatrixNeverWritten ==
    /\ st.skill_matrix = build_skill_baseline
    /\ gs.skill_matrix = build_skill_baseline

\* a report has been made and a record committed, and the matrix is the baseline
C35_Witness ==
    /\ gs.last_observer_report # <<>>
    /\ Len(gs.turns) >= 1
    /\ gs.skill_matrix = build_skill_baseline

(***************************************************************************)
(* The observer and difficulty stages of one invocation after another, on  *)
(* a session whose difficulty is a tier name: run_observer reports on the  *)
(* answer, no expert is selected, and run_difficulty reads that report.    *)
(***************************************************************************)
InitObserveDifficulty ==
    /\ driver = "unit"
    /\ max_turns = 0
    /\ cpc = "observe_difficulty"
    /\ kind = "none"
    /\ \E d \in TierSpellings :
        /\ st = [SessionAfter1 EXCEPT !.difficulty = d]
        /\ unit = [fn |-> "run_difficulty", difficulty |-> d]
    /\ gs = st
    /\ node = "idle"
    /\ visited = {}
    /\ calls = NoCalls
    /\ invocations = 0
    /\ reports_made = 0
    /\ last_logged_turn_id = 0
    /\ logger = [turns |-> <<>>, final_feedback |-> <<>>]
    /\ stop_reason = None
    /\ new_message = FALSE
    /\ plan_answer = <<>>
    /\ base = None
    /\ error = None

ObserveThenDifficulty ==
    /\ driver = "unit"
    /\ cpc = "observe_difficulty"
    /\ invocations < MaxReports
    /\ \E decision \in {d \in ObserverResults : ~d.raises /\ d.expert_roles = <<>>} :
        LET state == [gs EXCEPT !.last_user_message = "ans"]
            observed == run_observer(state, decision)
            after_observer == observed.update @@ state
            adjusted == run_difficulty(after_observer)
        IN  /\ ~observed.raised
            /\ ~adjusted.raised
            /\ st' = state
            /\ gs' = adjusted.update @@ after_observer
    /\ invocations' = invocations + 1
    /\ UNCHANGED <<driver, max_turns, cpc, kind, node, visited, calls,
                   reports_made, last_logged_turn_id, logger, stop_reason,
                   new_message, plan_answer, base, error, unit>>

NextObserveDifficulty == ObserveThenDifficulty

SpecObserveDifficulty == InitObserveDifficulty /\ [][NextObserveDifficulty]_vars

C37_NoQuestionOnExhaustedPlan ==
    /\ (cpc = "invoking" /\ node = "interviewer")
        => gs.current_topic_index < PlanLength
    /\ (cpc = "invoking" /\ gs.current_topic_index = PlanLength)
        => /\ node \in {"observer", "final_report", "END"}
           /\ node # "observer" => gs.pending_interviewer_message = None

\* the last topic was left behind and the invocation is at the final report
C37_Witness ==
    /\ cpc = "invoking"
    /\ node = "final_report"
    /\ ~gs.stop_requested
    /\ gs.current_topic_index = PlanLength
    /\ st.current_topic_index = PlanLength - 1

\* C38: in every turn record difficulty_before equals difficulty_after: both
\* are pending_difficulty, the difficulty that was current when
\* run_interviewer generated the record's question.
C38_DifficultySnapshotTwice ==
    [][/\ (cpc = "invoking" /\ node = "interviewer" /\ cpc' = "invoking")
            => gs'.pending_difficulty = gs.difficulty
       /\ Len(gs'.turns) = Len(gs.turns) + 1
            => LET record == gs'.turns[Len(gs'.turns)]
               IN  /\ record.difficulty_before = record.difficulty_after
                   /\ record.difficulty_before = gs.pending_difficulty
       /\ \A n \in DOMAIN gs'.turns :
            gs'.turns[n].difficulty_before = gs'.turns[n].difficulty_after]_vars

\* run_cli's record of the answered question holds the tier 3 twice
C38_Witness ==
    /\ driver = "cli"
    /\ Len(gs.turns) >= 1
    /\ gs.turns[1].difficulty_before = "3"
    /\ gs.turns[1].difficulty_after = "3"

\* C39: when the candidate's latest message holds a repeat-complaint marker,
\* run_interviewer calls the question collaborator not at all and emits the
\* fallback question of the first topic of TOPIC_SEQUENCE that is not in
\* topics_covered, whether or not that question was asked before.
C39_RepeatComplaintGetsFallback ==
    [][(/\ cpc = "invoking"
        /\ node = "interviewer"
        /\ Lower(Strip(OrEmpty(gs.last_user_message))) \in {"again", "please repeat"})
       => /\ cpc' = "invoking"
          /\ node' = "wait_for_user_input"
          /\ calls'.interviewer = calls.interviewer
          /\ LET covered == SeqToSet(gs.topics_covered)
                 question == gs'.pending_interviewer_message
             IN  \/ \E i \in DOMAIN TOPIC_SEQUENCE :
                        /\ TOPIC_SEQUENCE[i] \notin covered
                        /\ \A j \in 1..(i - 1) : TOPIC_SEQUENCE[j] \in covered
                        /\ question = templates[TOPIC_SEQUENCE[i]]
                 \/ /\ \A i \in DOMAIN TOPIC_SEQUENCE : TOPIC_SEQUENCE[i] \in covered
                    /\ question = FallbackGeneric]_vars

\* after a repeat complaint the fallback question emitted without a call is
\* the question the candidate was asked last
C39_Witness ==
    /\ cpc = "invoking"
    /\ node = "wait_for_user_input"
    /\ gs.last_user_message = "again"
    /\ calls.interviewer = 0
    /\ gs.pending_interviewer_message = st.last_interviewer_message
    /\ gs.pending_interviewer_message \in SeqToSet(st.asked_questions)
    /\ \E i \in DOMAIN TOPIC_SEQUENCE :
            gs.pending_interviewer_message = templates[TOPIC_SEQUENCE[i]]

====
